---- MODULE Spec2Model ----
(***************************************************************************)
(* State-machine model of the canvas chat client.                          *)
(*                                                                         *)
(*   Spec        ConversationGraph (src/unnamed/part_000): scene of nodes  *)
(*               and edges, selection / edit / drag / pan state, context   *)
(*               menu, and the streamed completion requests.               *)
(*   SpecStream  the same component, started when the first request has    *)
(*               been sent: the streams in detail, interleaved with the    *)
(*               user's gestures.                                          *)
(*   SpecCanvas  ConversationCanvas (src/src/ConversationCanvas.tsx):      *)
(*               viewport transforms and hit-testing on mouse down.        *)
(*                                                                         *)
(* Numbers are exact rationals <<num, den>> (den > 0, lowest terms); the   *)
(* pair <<0, 0>> stands for a value that is not a number (undefined, NaN). *)
(* Strings are sequences of tokens.                                        *)
(***************************************************************************)
EXTENDS Integers, Sequences, FiniteSets, TLC

VARIABLES
  nodes,        \* scene.nodes : key -> node record
  edges,        \* scene.edges : sequence of [from, to, fromPoint]
  vp,           \* viewport [x, y, scale]
  panning,      \* [active, sx, sy, ox, oy]; active = FALSE models null
  dragging,     \* [id, dx, dy]; id = NoId models null
  selectedId,   \* NoId models null
  editing,      \* NoId models null
  editingValue, \* editingValueRef.current
  contextMenu,  \* [open, x, y, nodeId]; open = FALSE models null
  nextId,       \* number of ids handed out by uid()
  requests,     \* sequence of the completion requests started so far
  used,         \* number of counted user operations so far (bounds the exploration)
  cv,           \* ConversationCanvas state
  event,        \* the event handled last, with its inputs (recorded by SpecView)
  pending,      \* the scene update queued by the size-measurement effect (SpecMeasure)
  grab,         \* the world point under the cursor at the last background mouse down
  chat          \* the chat views and the response bodies read character by character

vars == <<nodes, edges, vp, panning, dragging, selectedId, editing,
          editingValue, contextMenu, nextId, requests, used, cv, event,
          pending, grab, chat>>

(***************************************************************************)
(* Bounds                                                                  *)
(***************************************************************************)
MaxIds == 4
MaxRequests == 2
MaxReads == 2
MaxLines == 2
SceneReads == 1
SceneLines == 1
MaxMenus == 2
MaxGestures == 3
MaxCanvasIds == 2
MaxChars == 1
MaxCanvasEvents == 5
MaxViewEvents == 4
MaxTalkIds == 7
MaxTalkRequests == 3
MaxTalkReads == 3
MaxTalkMenus == 1
MaxMeasureEvents == 2
MaxMeasureReads == 1
MaxEditEvents == 7
MaxEditIds == 5
MaxEditRequests == 2
MaxFrameEvents == 4
MaxFrameReads == 1
MaxBody == 40
MaxSends == 2

(***************************************************************************)
(* Exact rational arithmetic                                               *)
(***************************************************************************)
Abs(n) == IF n < 0 THEN -n ELSE n

RECURSIVE GCD(_, _)
GCD(a, b) == IF b = 0 THEN a ELSE GCD(b, a % b)

NaN == <<0, 0>>

IsNum(a) == a[2] > 0

Norm(n, d) ==
  IF d = 0 THEN NaN
  ELSE LET g == GCD(Abs(n), Abs(d))
           s == IF d < 0 THEN -1 ELSE 1
       IN <<(s * n) \div g, (s * d) \div g>>

R(n) == <<n, 1>>

RAdd(a, b) == IF IsNum(a) /\ IsNum(b) THEN Norm(a[1] * b[2] + b[1] * a[2], a[2] * b[2]) ELSE NaN

RSub(a, b) == IF IsNum(a) /\ IsNum(b) THEN Norm(a[1] * b[2] - b[1] * a[2], a[2] * b[2]) ELSE NaN

RMul(a, b) == IF IsNum(a) /\ IsNum(b) THEN Norm(a[1] * b[1], a[2] * b[2]) ELSE NaN

RDiv(a, b) == IF IsNum(a) /\ IsNum(b) THEN Norm(a[1] * b[2], a[2] * b[1]) ELSE NaN

RLe(a, b) == IsNum(a) /\ IsNum(b) /\ a[1] * b[2] <= b[1] * a[2]

RMin(a, b) == IF RLe(a, b) THEN a ELSE b

RMax(a, b) == IF RLe(a, b) THEN b ELSE a

(***************************************************************************)
(* Values                                                                  *)
(***************************************************************************)
NoId == 0

LOADING_PLACEHOLDER == <<"___LOADING___">>

ERROR_TEXT == <<"Error fetching response.">>

NoPanning == [active |-> FALSE, sx |-> 0, sy |-> 0, ox |-> R(0), oy |-> R(0)]

NoDragging == [id |-> NoId, dx |-> R(0), dy |-> R(0)]

NoContextMenu == [open |-> FALSE, x |-> 0, y |-> 0, nodeId |-> NoId]

NoFromPoint == [x |-> NaN, y |-> NaN]

NoGrab == [x |-> R(0), y |-> R(0)]

\* a chat view before the first message, and no response body being read
NoView == [messages |-> <<>>, sends |-> <<>>]

NoLoop == [pc |-> "none", body |-> <<>>, rest |-> <<>>, assistantText |-> <<>>]

NoChat == [view |-> NoView, test |-> NoView, loop |-> NoLoop]

NoPending == [queued |-> FALSE, newNodes |-> <<>>]

NoEvent == [type |-> "none", x |-> 0, y |-> 0, deltaY |-> 0]

\* client positions of the mouse events that are tried (the viewport of the
\* specifications below is the initial one, so client and world positions agree):
\* inside a node, on the background, and where the mouse moves to
Inside(n) == {<<n.x[1] + 30, n.y[1] + 20>>}

Outside == {<<400, 300>>}

MovePoints == {<<150, 150>>}

\* values typed into the editable text of a node
EditValues == {<<"q">>}

\* a node object that has all its fields and sits under its own id
Complete(ns, k) == k \in DOMAIN ns /\ ns[k].id = k

\* { ...obj, text: t } for obj = s.nodes[k], which may be undefined
WithText(ns, k, t) ==
  IF k \in DOMAIN ns THEN [ns[k] EXCEPT !.text = t]
  ELSE [id |-> NoId, x |-> NaN, y |-> NaN, w |-> NaN, h |-> NaN,
        text |-> t, author |-> "undefined", parentId |-> NoId]

\* variant: { [k]: n }, the other nodes are not carried over
PutAlone(ns, k, n) == (k :> n)

\* { ...s.nodes, [k]: n }
Put(ns, k, n) == [j \in DOMAIN ns \cup {k} |-> IF j = k THEN n ELSE ns[j]]

\* variant: the array is searched in its own order
reverseNot(ns) == ns

\* Array.prototype.reverse
reverse(ns) == [i \in 1..Len(ns) |-> ns[Len(ns) + 1 - i]]

\* text.trim() !== ''
NonBlank(t) == \E i \in 1..Len(t) : t[i] /= " "

(***************************************************************************)
(* uid(): ids are handed out in order, so every id is fresh.               *)
(***************************************************************************)
\* variant: the id handed out last is handed out again
uidRepeated(n) == n

uid(n) == n + 1

(***************************************************************************)
(* ConversationCanvas: initial state                                       *)
(*                                                                         *)
(* cv.nodes is scene.nodes in the order of Object.values (insertion order: *)
(* the ids are not integer-like strings), cv.streams holds the position of *)
(* the fakeStream loop of every addChild call.  Mouse positions are taken  *)
(* relative to the canvas, whose bounding rectangle starts at the origin.  *)
(***************************************************************************)
ROOT_TEXT ==
  <<"A", "s", "k", " ", "m", "e", " ", "a", "n", "y", "t", "h", "i", "n", "g", "...">>

\* the characters fakeStream yields in addChild
STREAM_TEXT ==
  <<"T", "h", "i", "s", " ", "t", "e", "x", "t", " ", "i", "s", " ",
    "s", "t", "r", "e", "a", "m", "i", "n", "g", " ",
    "t", "o", "k", "e", "n", "-", "b", "y", "-", "t", "o", "k", "e", "n", "...">>

\* measureText for a text of one line, every character 8 px wide in the font
measureText(text) == [w |-> R(8 * Len(text) + 16), h |-> R(1 * 20 + 12)]

\* the node loop of draw: the measured size is written into every node
draw(ns) ==
  [i \in 1..Len(ns) |->
     [ns[i] EXCEPT !.w = measureText(ns[i].text).w, !.h = measureText(ns[i].text).h]]

CanvasRoot ==
  [id |-> 1, x |-> R(100), y |-> R(100), w |-> R(240), h |-> R(60),
   text |-> ROOT_TEXT, parentId |-> NoId]

\* the component after its first render and draw
CanvasInit ==
  [nodes |-> draw(<<CanvasRoot>>), edges |-> <<>>,
   vp |-> [x |-> R(0), y |-> R(0), scale |-> R(1)],
   panning |-> NoPanning, dragging |-> NoDragging,
   hoverId |-> NoId, selectedId |-> NoId, streams |-> <<>>, nextId |-> 1]

(***************************************************************************)
(* ConversationGraph: initial state                                        *)
(***************************************************************************)
RootNode ==
  [id |-> 1, x |-> R(100), y |-> R(100), w |-> R(240), h |-> R(60),
   text |-> <<>>, author |-> "user", parentId |-> NoId]

Init ==
  /\ nodes = (1 :> RootNode)
  /\ edges = <<>>
  /\ vp = [x |-> R(0), y |-> R(0), scale |-> R(1)]
  /\ panning = NoPanning
  /\ dragging = NoDragging
  /\ selectedId = NoId
  /\ editing = NoId
  /\ editingValue = <<>>
  /\ contextMenu = NoContextMenu
  /\ nextId = 1
  /\ requests = <<>>
  /\ used = 0
  /\ cv = CanvasInit
  /\ event = NoEvent
  /\ pending = NoPending
  /\ grab = NoGrab
  /\ chat = NoChat

screenToWorld(v, sx, sy) ==
  [x |-> RDiv(RSub(R(sx), v.x), v.scale), y |-> RDiv(RSub(R(sy), v.y), v.scale)]

(***************************************************************************)
(* ConversationGraph: mouse, keyboard and context-menu handlers            *)
(***************************************************************************)
\* handleClickOutside (capture phase): a mouse down outside the menu closes it
handleClickOutside == contextMenu' = NoContextMenu

\* mouse down on the background
onMouseDown(p) ==
  /\ handleClickOutside
  /\ selectedId' = NoId
  /\ editing' = NoId
  /\ panning' = [active |-> TRUE, sx |-> p[1], sy |-> p[2], ox |-> vp.x, oy |-> vp.y]
  /\ UNCHANGED <<nodes, edges, vp, dragging, editingValue, nextId, requests, cv>>

\* mouse down on a node (outside its text, or on the text being edited)
onNodeMouseDown(n, p) ==
  /\ Complete(nodes, n)
  /\ handleClickOutside
  /\ selectedId' = n
  /\ LET w == screenToWorld(vp, p[1], p[2])
     IN dragging' = [id |-> n, dx |-> RSub(w.x, nodes[n].x), dy |-> RSub(w.y, nodes[n].y)]
  /\ UNCHANGED <<nodes, edges, vp, panning, editing, editingValue, nextId, requests, cv>>

\* mouse down on the text of a node that is not being edited
onTextMouseDown(n) ==
  /\ Complete(nodes, n)
  /\ ~(editing = n /\ nodes[n].author = "user")
  /\ handleClickOutside
  /\ selectedId' = n
  /\ UNCHANGED <<nodes, edges, vp, panning, dragging, editing, editingValue, nextId,
                 requests, cv>>

\* variant of onDoubleClick: the author of the node is not looked at
onDoubleClickAny(n) ==
  /\ Complete(nodes, n)
  /\ selectedId' = n
  /\ editing' = n
  /\ editingValue' = nodes[n].text
  /\ UNCHANGED <<nodes, edges, vp, panning, dragging, contextMenu, nextId, requests, cv>>

\* variant of onDoubleClick: editingValueRef is left as it is
onDoubleClickKeepsValue(n) ==
  /\ Complete(nodes, n)
  /\ nodes[n].author = "user"
  /\ selectedId' = n
  /\ editing' = n
  /\ UNCHANGED <<nodes, edges, vp, panning, dragging, editingValue, contextMenu, nextId,
                 requests, cv>>

onDoubleClick(n) ==
  /\ Complete(nodes, n)
  /\ nodes[n].author = "user"
  /\ selectedId' = n
  /\ editing' = n
  /\ editingValue' = nodes[n].text
  /\ UNCHANGED <<nodes, edges, vp, panning, dragging, contextMenu, nextId, requests, cv>>

\* typing into the contentEditable text of the node being edited
onInput(v) ==
  /\ editing /= NoId
  /\ Complete(nodes, editing)
  /\ nodes[editing].author = "user"
  /\ editingValue' = v
  /\ UNCHANGED <<nodes, edges, vp, panning, dragging, selectedId, editing, contextMenu,
                 nextId, requests, cv>>

\* the scene after commitEdit
commitEditNodes == Put(nodes, editing, WithText(nodes, editing, editingValue))

\* blur of the edited text
commitEdit ==
  /\ editing /= NoId
  /\ nodes' = commitEditNodes
  /\ editing' = NoId
  /\ UNCHANGED <<edges, vp, panning, dragging, selectedId, editingValue, contextMenu,
                 nextId, requests, cv>>

onContextMenu(p, n) ==
  /\ n = NoId \/ Complete(nodes, n)
  /\ contextMenu' = [open |-> TRUE, x |-> p[1], y |-> p[2], nodeId |-> n]
  /\ UNCHANGED <<nodes, edges, vp, panning, dragging, selectedId, editing, editingValue,
                 nextId, requests, cv>>

addNode ==
  /\ contextMenu.open
  /\ LET id == uid(nextId)
         w == screenToWorld(vp, contextMenu.x, contextMenu.y)
         newNode == [id |-> id, x |-> w.x, y |-> w.y, w |-> R(220), h |-> R(60),
                     text |-> <<>>, author |-> "user", parentId |-> NoId]
     IN /\ nodes' = Put(nodes, id, newNode)
        /\ nextId' = id
  /\ contextMenu' = NoContextMenu
  /\ UNCHANGED <<edges, vp, panning, dragging, selectedId, editing, editingValue,
                 requests, cv>>

\* s.edges.filter(edge => edge.from !== nodeId && edge.to !== nodeId)
RECURSIVE FilterEdges(_, _)
FilterEdges(es, nodeId) ==
  IF es = <<>> THEN <<>>
  ELSE IF Head(es).from /= nodeId /\ Head(es).to /= nodeId
       THEN <<Head(es)>> \o FilterEdges(Tail(es), nodeId)
       ELSE FilterEdges(Tail(es), nodeId)

deleteNode ==
  /\ contextMenu.open
  /\ contextMenu.nodeId /= NoId
  /\ nodes' = [k \in DOMAIN nodes \ {contextMenu.nodeId} |-> nodes[k]]
  /\ edges' = FilterEdges(edges, contextMenu.nodeId)
  /\ contextMenu' = NoContextMenu
  /\ UNCHANGED <<vp, panning, dragging, selectedId, editing, editingValue, nextId,
                 requests, cv>>

\* variant of onMouseMove: the dragged node follows the client position itself
onMouseMoveClient(p) ==
  /\ IF dragging.id /= NoId
     THEN /\ nodes' = IF dragging.id \in DOMAIN nodes
                       THEN [nodes EXCEPT ![dragging.id].x = RSub(R(p[1]), dragging.dx),
                                          ![dragging.id].y = RSub(R(p[2]), dragging.dy)]
                       ELSE nodes
          /\ vp' = vp
     ELSE /\ vp' = IF panning.active
                    THEN [vp EXCEPT !.x = RAdd(panning.ox, R(p[1] - panning.sx)),
                                    !.y = RAdd(panning.oy, R(p[2] - panning.sy))]
                    ELSE vp
          /\ nodes' = nodes
  /\ UNCHANGED <<edges, panning, dragging, selectedId, editing, editingValue, contextMenu,
                 nextId, requests, cv>>

onMouseMove(p) ==
  /\ IF dragging.id /= NoId
     THEN /\ LET w == screenToWorld(vp, p[1], p[2])
             IN nodes' = IF dragging.id \in DOMAIN nodes
                         THEN [nodes EXCEPT ![dragging.id].x = RSub(w.x, dragging.dx),
                                            ![dragging.id].y = RSub(w.y, dragging.dy)]
                         ELSE nodes
          /\ vp' = vp
     ELSE /\ vp' = IF panning.active
                    THEN [vp EXCEPT !.x = RAdd(panning.ox, R(p[1] - panning.sx)),
                                    !.y = RAdd(panning.oy, R(p[2] - panning.sy))]
                    ELSE vp
          /\ nodes' = nodes
  /\ UNCHANGED <<edges, panning, dragging, selectedId, editing, editingValue, contextMenu,
                 nextId, requests, cv>>

\* variant of onMouseUp: the drag is left as it is
onMouseUpPanning ==
  /\ panning' = NoPanning
  /\ UNCHANGED <<nodes, edges, vp, dragging, selectedId, editing, editingValue,
                 contextMenu, nextId, requests, cv>>

onMouseUp ==
  /\ panning' = NoPanning
  /\ dragging' = NoDragging
  /\ UNCHANGED <<nodes, edges, vp, selectedId, editing, editingValue, contextMenu,
                 nextId, requests, cv>>

\* variant of the updater of onWheel: the scale is not clamped
onWheelVpUnclamped(prevVp, mx, my, deltaY) ==
  LET delta == R(-deltaY)
      zoomIntensity == <<3, 2000>>
      newScale == RMul(prevVp.scale, RAdd(R(1), RMul(delta, zoomIntensity)))
      worldX == RDiv(RSub(R(mx), prevVp.x), prevVp.scale)
      worldY == RDiv(RSub(R(my), prevVp.y), prevVp.scale)
      newX == RSub(R(mx), RMul(worldX, newScale))
      newY == RSub(R(my), RMul(worldY, newScale))
  IN [x |-> newX, y |-> newY, scale |-> newScale]

\* variant of the updater of onWheel: the offset of the viewport is kept
onWheelVpScaleOnly(prevVp, mx, my, deltaY) ==
  LET delta == R(-deltaY)
      zoomIntensity == <<3, 2000>>
  IN [prevVp EXCEPT !.scale = RMax(<<1, 4>>, RMin(R(3),
                       RMul(prevVp.scale, RAdd(R(1), RMul(delta, zoomIntensity)))))]

\* the updater of onWheel: the viewport after a wheel turn of deltaY at (mx, my)
onWheelVp(prevVp, mx, my, deltaY) ==
  LET delta == R(-deltaY)
      zoomIntensity == <<3, 2000>>
      newScale == RMax(<<1, 4>>, RMin(R(3),
                    RMul(prevVp.scale, RAdd(R(1), RMul(delta, zoomIntensity)))))
      worldX == RDiv(RSub(R(mx), prevVp.x), prevVp.scale)
      worldY == RDiv(RSub(R(my), prevVp.y), prevVp.scale)
      newX == RSub(R(mx), RMul(worldX, newScale))
      newY == RSub(R(my), RMul(worldY, newScale))
  IN [x |-> newX, y |-> newY, scale |-> newScale]

\* the container's bounding rectangle starts at the origin: mx = e.clientX
onWheel(p, deltaY) ==
  /\ vp' = onWheelVp(vp, p[1], p[2], deltaY)
  /\ UNCHANGED <<nodes, edges, panning, dragging, selectedId, editing, editingValue,
                 contextMenu, nextId, requests, cv>>

\* variant of resetView: the scale of the viewport is kept
resetViewOffset ==
  /\ vp' = [vp EXCEPT !.x = R(0), !.y = R(0)]
  /\ UNCHANGED <<nodes, edges, panning, dragging, selectedId, editing, editingValue,
                 contextMenu, nextId, requests, cv>>

\* the onClick of the Reset View button (the mouse down and the mouse up of the
\* click bubble to the container and are the steps onMouseDown and onMouseUp)
resetView ==
  /\ vp' = [x |-> R(0), y |-> R(0), scale |-> R(1)]
  /\ UNCHANGED <<nodes, edges, panning, dragging, selectedId, editing, editingValue,
                 contextMenu, nextId, requests, cv>>

(***************************************************************************)
(* ConversationGraph: completion requests                                  *)
(***************************************************************************)
\* the content delta carried by line i of the c-th chunk of the response to
\* request r: every delta of every response is a different string
Tok(r, c, i) == "r" \o ToString(r) \o "." \o ToString(c) \o "." \o ToString(i)

\* kinds of line a chunk of the response body is made of:
\*   other        a line that does not start with 'data: '
\*   done         data: [DONE]
\*   bad          data: followed by text that JSON.parse or the field access rejects
\*   empty, stop  data: event without delta content (finish_reason null, 'stop')
\*   content, contentStop   data: event with delta content
LineShapes == {"other", "done", "bad", "empty", "stop", "content", "contentStop"}

\* the shapes tried in the specifications
StreamShapes == {"other", "done", "bad", "stop", "content", "contentStop"}

ChunkShapes(maxLines) == UNION {[1..n -> StreamShapes] : n \in 1..maxLines}

\* the lines of the c-th chunk of the response to request r
MkLines(shapes, r, c) ==
  [i \in 1..Len(shapes) |->
     [data |-> shapes[i] /= "other",
      payload |-> IF shapes[i] = "done" THEN "[DONE]"
                  ELSE IF shapes[i] = "bad" THEN "bad" ELSE "json",
      content |-> IF shapes[i] \in {"content", "contentStop"}
                  THEN <<Tok(r, c, i)>> ELSE <<>>,
      stop |-> shapes[i] \in {"stop", "contentStop"}]]

\* chunk.split('\n').filter(line => line.startsWith('data: '))
RECURSIVE DataLines(_)
DataLines(lines) ==
  IF lines = <<>> THEN <<>>
  ELSE IF Head(lines).data THEN <<Head(lines)>> \o DataLines(Tail(lines))
       ELSE DataLines(Tail(lines))

\* variant of the for loop: the delta replaces the text instead of being appended
RECURSIVE ForLinesReplacing(_, _)
ForLinesReplacing(lines, st) ==
  IF lines = <<>> THEN st
  ELSE LET line == Head(lines) IN
       IF line.payload = "[DONE]" THEN [st EXCEPT !.finished = TRUE]
       ELSE IF line.payload = "bad" THEN [st EXCEPT !.thrown = TRUE]
       ELSE LET st1 == IF line.content /= <<>>
                       THEN [st EXCEPT !.assistantText = line.content,
                                       !.updated = TRUE]
                       ELSE st
            IN IF line.stop THEN [st1 EXCEPT !.finished = TRUE]
               ELSE ForLinesReplacing(Tail(lines), st1)

\* variant of the for loop: [DONE] and finish_reason 'stop' are skipped over
RECURSIVE ForLinesOn(_, _)
ForLinesOn(lines, st) ==
  IF lines = <<>> THEN st
  ELSE LET line == Head(lines) IN
       IF line.payload = "[DONE]" THEN ForLinesOn(Tail(lines), st)
       ELSE IF line.payload = "bad" THEN [st EXCEPT !.thrown = TRUE]
       ELSE LET st1 == IF line.content /= <<>>
                       THEN [st EXCEPT !.assistantText = @ \o line.content,
                                       !.updated = TRUE]
                       ELSE st
            IN ForLinesOn(Tail(lines), st1)

\* the for loop over the data lines of one chunk; st = [assistantText, finished,
\* thrown, updated], updated telling whether setScene was called
RECURSIVE ForLines(_, _)
ForLines(lines, st) ==
  IF lines = <<>> THEN st
  ELSE LET line == Head(lines) IN
       IF line.payload = "[DONE]" THEN [st EXCEPT !.finished = TRUE]
       ELSE IF line.payload = "bad" THEN [st EXCEPT !.thrown = TRUE]
       ELSE LET st1 == IF line.content /= <<>>
                       THEN [st EXCEPT !.assistantText = @ \o line.content,
                                       !.updated = TRUE]
                       ELSE st
            IN IF line.stop THEN [st1 EXCEPT !.finished = TRUE]
               ELSE ForLines(Tail(lines), st1)

\* createNextUserNode(parentNodeId) applied to a scene: the new scene, ids and
\* selection
createNextUserNode(ns, es, parentNodeId) ==
  IF parentNodeId \notin DOMAIN ns
  THEN [nodes |-> ns, edges |-> es, selectedId |-> selectedId, editing |-> editing,
        editingValue |-> editingValue, nextId |-> nextId]
  ELSE LET parentNode == ns[parentNodeId]
           id == uid(nextId)
           newNode == [id |-> id, x |-> parentNode.x,
                       y |-> RAdd(RAdd(parentNode.y, parentNode.h), R(60)),
                       w |-> R(240), h |-> R(60), text |-> <<>>, author |-> "user",
                       parentId |-> parentNodeId]
           newEdge == [from |-> parentNodeId, to |-> id, fromPoint |-> NoFromPoint]
       IN [nodes |-> Put(ns, id, newNode), edges |-> Append(es, newEdge),
           selectedId |-> id, editing |-> id, editingValue |-> <<>>, nextId |-> id]

\* the while loop of getConversationHistory, from currentNodeId with the messages
\* pushed so far.  A walk over k nodes ends within k + 1 rounds unless it comes to
\* a node a second time, and then it never ends; steps counts the rounds left.
RECURSIVE getConversationHistoryLoop(_, _, _, _)
getConversationHistoryLoop(currentNodeId, ns, history, steps) ==
  IF currentNodeId = NoId THEN [history |-> history, returns |-> TRUE]
  ELSE IF steps = 0 THEN [history |-> history, returns |-> FALSE]
  ELSE IF currentNodeId \in DOMAIN ns
  THEN LET currentNode == ns[currentNodeId]
           message == [role |-> IF currentNode.author = "user" THEN "user" ELSE "assistant",
                       content |-> currentNode.text]
       IN getConversationHistoryLoop(currentNode.parentId, ns,
                                     Append(history, message), steps - 1)
  ELSE getConversationHistoryLoop(NoId, ns, history, steps - 1)

\* the loop ends
getConversationHistoryReturns(leafNodeId, ns) ==
  getConversationHistoryLoop(leafNodeId, ns, <<>>, Cardinality(DOMAIN ns) + 1).returns

\* variant: the messages in the order they were pushed
getConversationHistoryPushed(leafNodeId, ns) ==
  getConversationHistoryLoop(leafNodeId, ns, <<>>, Cardinality(DOMAIN ns) + 1).history

\* the value returned
getConversationHistory(leafNodeId, ns) ==
  reverse(getConversationHistoryLoop(leafNodeId, ns, <<>>,
                                     Cardinality(DOMAIN ns) + 1).history)

\* a request: where its async function stands (pc: fetch, read, done, failed) and
\* its local assistantText, the messages of its payload; the other fields record what happened to it: chunks
\* read, fetches sent, calls of createNextUserNode, and, by the meaning of the
\* events delivered (ChunkMeaning), the response text so far, whether the response
\* has ended or broken, and how many events came after the end in the same chunk
NewRequest(kind, parentNodeId, botNodeId, history) ==
  [kind |-> kind, parent |-> parentNodeId, bot |-> botNodeId, messages |-> history,
   pc |-> "fetch",
   assistantText |-> <<>>, reads |-> 0, fetches |-> 1, calls |-> 0,
   sent |-> <<>>, over |-> FALSE, broke |-> FALSE, rest |-> 0]

\* addBotResponse up to its first await
addBotResponse(parentNodeId) ==
  /\ parentNodeId \in DOMAIN nodes
  /\ LET parentNode == nodes[parentNodeId]
         botNodeId == uid(nextId)
         botNode == [id |-> botNodeId, x |-> parentNode.x,
                     y |-> RAdd(RAdd(parentNode.y, parentNode.h), R(60)),
                     w |-> R(240), h |-> R(60), text |-> LOADING_PLACEHOLDER,
                     author |-> "llm", parentId |-> parentNodeId]
         newEdge == [from |-> parentNodeId, to |-> botNodeId, fromPoint |-> NoFromPoint]
     IN /\ nodes' = Put(nodes, botNodeId, botNode)
        /\ edges' = Append(edges, newEdge)
        /\ nextId' = botNodeId
        /\ requests' = Append(requests,
                               NewRequest("bot", parentNodeId, botNodeId,
                                          getConversationHistory(parentNodeId, nodes)))
  /\ UNCHANGED <<vp, panning, dragging, selectedId, editing, editingValue, contextMenu, cv>>

\* `"${selectedText}"\n\nExplain this part more.`
userMessage(selectedText) == <<"\"">> \o selectedText \o <<"\"", "Explain this part more.">>

\* addBranchFromSelection up to its first await; the text selected is the whole
\* text of the source node
addBranchFromSelection(sourceNodeId, sp) ==
  /\ sourceNodeId \in DOMAIN nodes
  /\ LET sourceNode == nodes[sourceNodeId]
         worldPoint == screenToWorld(vp, sp[1], sp[2])
         fromPoint == [x |-> RSub(worldPoint.x, sourceNode.x),
                       y |-> RSub(worldPoint.y, sourceNode.y)]
         userNodeId == uid(nextId)
         userNode == [id |-> userNodeId, x |-> R(0), y |-> R(0), w |-> R(0), h |-> R(0),
                      text |-> userMessage(sourceNode.text), author |-> "user",
                      parentId |-> sourceNodeId]
         botNodeId == uid(userNodeId)
         botNode == [id |-> botNodeId,
                     x |-> RAdd(RAdd(sourceNode.x, sourceNode.w), R(40)),
                     y |-> sourceNode.y, w |-> R(240), h |-> R(60),
                     text |-> LOADING_PLACEHOLDER, author |-> "llm",
                     parentId |-> userNodeId]
         newEdge == [from |-> sourceNodeId, to |-> botNodeId, fromPoint |-> fromPoint]
         newNodesForHistory == Put(nodes, userNodeId, userNode)
     IN /\ nodes' = Put(nodes, botNodeId, botNode)
        /\ edges' = Append(edges, newEdge)
        /\ nextId' = botNodeId
        /\ requests' = Append(requests,
                               NewRequest("branch", sourceNodeId, botNodeId,
                                          getConversationHistory(userNodeId,
                                                                 newNodesForHistory)))
  /\ UNCHANGED <<vp, panning, dragging, selectedId, editing, editingValue, contextMenu, cv>>

\* what the data lines of one chunk mean under the event protocol: the stream ends
\* at the first [DONE] or finish_reason 'stop', fails at a malformed event before
\* that, and every delta up to that point is part of the response text
FirstIn(S, n) == IF S = {} THEN n + 1 ELSE CHOOSE i \in S : \A j \in S : i <= j

ChunkMeaning(D) ==
  LET t == FirstIn({i \in 1..Len(D) : D[i].payload = "[DONE]"
                                      \/ (D[i].payload = "json" /\ D[i].stop)}, Len(D))
      b == FirstIn({i \in 1..Len(D) : D[i].payload = "bad"}, Len(D))
      upto == IF t < b THEN t ELSE IF b <= Len(D) THEN b - 1 ELSE Len(D)
      deltas == {i \in 1..upto : D[i].payload = "json" /\ D[i].content /= <<>>}
      F[i \in 0..Len(D)] == IF i = 0 THEN <<>>
                            ELSE IF i \in deltas THEN F[i - 1] \o D[i].content ELSE F[i - 1]
  IN [ends |-> t < b, fails |-> b < t, text |-> F[Len(D)],
      rest |-> IF t < b THEN Len(D) - t ELSE 0]

\* the catch block: the literal error string is written into the bot node
catchError(ns, botNodeId) == Put(ns, botNodeId, WithText(ns, botNodeId, ERROR_TEXT))

\* variant: the request is sent again after a failure
FailedRetried(req) == [req EXCEPT !.pc = "fetch", !.fetches = @ + 1]

\* the request after its catch block: nothing is retried
Failed(req) == [req EXCEPT !.pc = "failed"]

\* the rest of the async function once the read loop has been left
Leave(r, req, ns) ==
  LET c == createNextUserNode(ns, edges, req.bot)
  IN /\ nodes' = c.nodes
     /\ edges' = c.edges
     /\ selectedId' = c.selectedId
     /\ editing' = c.editing
     /\ editingValue' = c.editingValue
     /\ nextId' = c.nextId
     /\ requests' = [requests EXCEPT ![r] = [req EXCEPT !.pc = "done", !.calls = @ + 1]]

Throw(r, req, ns) ==
  /\ nodes' = catchError(ns, req.bot)
  /\ requests' = [requests EXCEPT ![r] = Failed(req)]
  /\ UNCHANGED <<edges, selectedId, editing, editingValue, nextId>>

\* fetch rejects, or the response is not ok
FetchFail(r) ==
  /\ r \in 1..Len(requests)
  /\ requests[r].pc = "fetch"
  /\ Throw(r, [requests[r] EXCEPT !.broke = TRUE], nodes)
  /\ UNCHANGED <<vp, panning, dragging, contextMenu, cv>>

FetchOk(r) ==
  /\ r \in 1..Len(requests)
  /\ requests[r].pc = "fetch"
  /\ requests' = [requests EXCEPT ![r].pc = "read"]
  /\ UNCHANGED <<nodes, edges, vp, panning, dragging, selectedId, editing, editingValue,
                 contextMenu, nextId, cv>>

\* reader.read() rejects
ReadFail(r) ==
  /\ r \in 1..Len(requests)
  /\ requests[r].pc = "read"
  /\ Throw(r, [requests[r] EXCEPT !.broke = TRUE], nodes)
  /\ UNCHANGED <<vp, panning, dragging, contextMenu, cv>>

\* reader.read() reports the end of the body
ReadDone(r) ==
  /\ r \in 1..Len(requests)
  /\ requests[r].pc = "read"
  /\ Leave(r, [requests[r] EXCEPT !.over = TRUE], nodes)
  /\ UNCHANGED <<vp, panning, dragging, contextMenu, cv>>

\* reader.read() delivers a chunk: one pass of the while loop, and what follows
\* it without a further await
ReadChunk(r, shapes) ==
  /\ r \in 1..Len(requests)
  /\ requests[r].pc = "read"
  /\ LET req == requests[r]
         lines == MkLines(shapes, r, req.reads + 1)
         meaning == ChunkMeaning(DataLines(lines))
         st == ForLines(DataLines(lines),
                        [assistantText |-> req.assistantText, finished |-> FALSE,
                         thrown |-> FALSE, updated |-> FALSE])
         ns == IF st.updated
               THEN Put(nodes, req.bot, WithText(nodes, req.bot, st.assistantText))
               ELSE nodes
         req1 == [req EXCEPT !.assistantText = st.assistantText,
                             !.reads = @ + 1,
                             !.sent = @ \o meaning.text,
                             !.over = meaning.ends,
                             !.broke = meaning.fails,
                             !.rest = meaning.rest]
     IN IF st.thrown THEN Throw(r, req1, ns)
        ELSE IF st.finished THEN Leave(r, req1, ns)
        ELSE /\ nodes' = ns
             /\ requests' = [requests EXCEPT ![r] = req1]
             /\ UNCHANGED <<edges, selectedId, editing, editingValue, nextId>>
  /\ UNCHANGED <<vp, panning, dragging, contextMenu, cv>>

(***************************************************************************)
(* ConversationGraph: keyboard and play button                             *)
(***************************************************************************)
\* Space with a text selection that lies in an llm node
onKeySpaceSelection(n, sp) ==
  /\ editing = NoId
  /\ Complete(nodes, n)
  /\ nodes[n].author = "llm"
  /\ nodes[n].text /= LOADING_PLACEHOLDER
  /\ NonBlank(nodes[n].text)
  /\ addBranchFromSelection(n, sp)

\* variant of onKeySpace: editing is not looked at
onKeySpaceEditing ==
  /\ selectedId /= NoId
  /\ selectedId \in DOMAIN nodes
  /\ nodes[selectedId].author = "user"
  /\ NonBlank(nodes[selectedId].text)
  /\ addBotResponse(selectedId)

\* Space without such a selection
onKeySpace ==
  /\ editing = NoId
  /\ selectedId /= NoId
  /\ selectedId \in DOMAIN nodes
  /\ nodes[selectedId].author = "user"
  /\ NonBlank(nodes[selectedId].text)
  /\ addBotResponse(selectedId)

onPlayClick(n) ==
  /\ Complete(nodes, n)
  /\ nodes[n].author = "user"
  /\ NonBlank(nodes[n].text)
  /\ addBotResponse(n)

\* variant of the Enter branches of onKey: Shift is not looked at
onKeyEnterAnyShift(shift) ==
  \/ /\ selectedId /= NoId
     /\ editing = NoId
     /\ selectedId \in DOMAIN nodes
     /\ nodes[selectedId].author = "user"
     /\ editing' = selectedId
     /\ editingValue' = nodes[selectedId].text
     /\ UNCHANGED <<nodes, edges, vp, panning, dragging, selectedId, contextMenu, nextId,
                    requests, cv>>
  \/ /\ editing /= NoId
     /\ commitEdit

onKeyEnter(shift) ==
  \/ /\ selectedId /= NoId
     /\ editing = NoId
     /\ selectedId \in DOMAIN nodes
     /\ nodes[selectedId].author = "user"
     /\ editing' = selectedId
     /\ editingValue' = nodes[selectedId].text
     /\ UNCHANGED <<nodes, edges, vp, panning, dragging, selectedId, contextMenu, nextId,
                    requests, cv>>
  \/ /\ editing /= NoId
     /\ ~shift
     /\ commitEdit

onKeyEscape ==
  /\ editing /= NoId
  /\ editing' = NoId
  /\ UNCHANGED <<nodes, edges, vp, panning, dragging, selectedId, editingValue,
                 contextMenu, nextId, requests, cv>>

(***************************************************************************)
(* ConversationGraph: specification                                        *)
(***************************************************************************)
Ids == 1..MaxIds

\* the complete nodes: the ones that are rendered and receive events
Shown == {n \in DOMAIN nodes : Complete(nodes, n)}

\* no rendered node lies under the client position p
OnBackground(p) ==
  \A n \in Shown :
     ~(/\ RLe(nodes[n].x, R(p[1])) /\ RLe(R(p[1]), RAdd(nodes[n].x, nodes[n].w))
       /\ RLe(nodes[n].y, R(p[2])) /\ RLe(R(p[2]), RAdd(nodes[n].y, nodes[n].h)))


\* the sizes explored: ids handed out, requests started
Bounded ==
  /\ nextId' <= MaxIds /\ Len(requests') <= MaxRequests
  /\ event' = event /\ pending' = pending /\ grab' = grab /\ chat' = chat

\* an operation that counts against the bound max, and one that does not
\* (used is left alone by the handlers)
Counted(max) == used < max /\ used' = used + 1

Free == used' = used

RECURSIVE Reads(_)
Reads(reqs) == IF reqs = <<>> THEN 0 ELSE Head(reqs).reads + Reads(Tail(reqs))

\* a chunk of at most maxLines lines is delivered to request r; at most maxReads
\* chunks are delivered in all
Chunk(r, maxReads, maxLines) ==
  \E shapes \in ChunkShapes(maxLines) :
     /\ Reads(requests) < maxReads
     /\ ReadChunk(r, shapes)

\* Spec: the operations that build and change the scene (nodes are added,
\* deleted and edited, requests are started and stream), with the context menu
\* opened at most MaxMenus times.  The handlers left out of it change selection, drag,
\* pan and viewport only.
Next ==
  \/ \E n \in Ids : onDoubleClick(n) /\ Free /\ Bounded
  \/ \E v \in EditValues : onInput(v) /\ Free /\ Bounded
  \/ commitEdit /\ Free /\ Bounded
  \/ \E n \in Shown : \E p \in Inside(nodes[n]) :
        onContextMenu(p, n) /\ Counted(MaxMenus) /\ Bounded
  \/ \E p \in Outside :
        OnBackground(p) /\ onContextMenu(p, NoId) /\ Counted(MaxMenus) /\ Bounded
  \/ addNode /\ Free /\ Bounded
  \/ deleteNode /\ Free /\ Bounded
  \/ \E n \in Shown : \E sp \in Inside(nodes[n]) :
        onKeySpaceSelection(n, sp) /\ Free /\ Bounded
  \/ \E n \in Ids : onPlayClick(n) /\ Free /\ Bounded
  \/ \E r \in 1..MaxRequests : FetchFail(r) /\ Free /\ Bounded
  \/ \E r \in 1..MaxRequests : FetchOk(r) /\ Free /\ Bounded
  \/ \E r \in 1..MaxRequests : ReadFail(r) /\ Free /\ Bounded
  \/ \E r \in 1..MaxRequests : ReadDone(r) /\ Free /\ Bounded
  \/ \E r \in 1..MaxRequests : Chunk(r, SceneReads, SceneLines) /\ Free /\ Bounded

Spec == Init /\ [][Next]_vars

\* SpecStream: the streams in detail, with the user deleting, dragging, editing
\* and adding nodes and starting further requests while they run, in at most
\* MaxGestures user operations.  It starts when the root node has been given a
\* text and the first request has been sent (double click, input, blur, play).
InitStream ==
  /\ nodes = (1 :> [RootNode EXCEPT !.text = <<"q">>]
               @@ 2 :> [id |-> 2, x |-> R(100), y |-> R(220), w |-> R(240), h |-> R(60),
                        text |-> LOADING_PLACEHOLDER, author |-> "llm", parentId |-> 1])
  /\ edges = <<[from |-> 1, to |-> 2, fromPoint |-> NoFromPoint]>>
  /\ vp = [x |-> R(0), y |-> R(0), scale |-> R(1)]
  /\ panning = NoPanning
  /\ dragging = NoDragging
  /\ selectedId = 1
  /\ editing = NoId
  /\ editingValue = <<"q">>
  /\ contextMenu = NoContextMenu
  /\ nextId = 2
  /\ requests = <<NewRequest("bot", 1, 2, <<[role |-> "user", content |-> <<"q">>]>>)>>
  /\ used = 0
  /\ cv = CanvasInit
  /\ event = NoEvent
  /\ pending = NoPending
  /\ grab = NoGrab
  /\ chat = NoChat

Gesture == Counted(MaxGestures) /\ Bounded

NextStream ==
  \/ \E n \in Shown : \E p \in Inside(nodes[n]) : onNodeMouseDown(n, p) /\ Gesture
  \/ \E p \in MovePoints : dragging.id /= NoId /\ onMouseMove(p) /\ Gesture
  \/ onMouseUp /\ Gesture
  \/ \E n \in Ids : onDoubleClick(n) /\ Gesture
  \/ \E v \in EditValues : onInput(v) /\ Gesture
  \/ commitEdit /\ Gesture
  \/ \E n \in Shown : \E p \in Inside(nodes[n]) : onContextMenu(p, n) /\ Gesture
  \/ \E p \in Outside : OnBackground(p) /\ onContextMenu(p, NoId) /\ Gesture
  \/ addNode /\ Gesture
  \/ deleteNode /\ Gesture
  \/ \E n \in Shown : \E sp \in Inside(nodes[n]) : onKeySpaceSelection(n, sp) /\ Gesture
  \/ \E n \in Ids : onPlayClick(n) /\ Gesture
  \/ \E r \in 1..MaxRequests : FetchFail(r) /\ Free /\ Bounded
  \/ \E r \in 1..MaxRequests : FetchOk(r) /\ Free /\ Bounded
  \/ \E r \in 1..MaxRequests : ReadFail(r) /\ Free /\ Bounded
  \/ \E r \in 1..MaxRequests : ReadDone(r) /\ Free /\ Bounded
  \/ \E r \in 1..MaxRequests : Chunk(r, MaxReads, MaxLines) /\ Free /\ Bounded

SpecStream == InitStream /\ [][NextStream]_vars

(***************************************************************************)
(* ConversationCanvas: handlers                                            *)
(***************************************************************************)
pointInRect(px, py, n) ==
  /\ RLe(n.x, px) /\ RLe(px, RAdd(n.x, n.w))
  /\ RLe(n.y, py) /\ RLe(py, RAdd(n.y, n.h))

clamp(v, min, max) == RMin(max, RMax(min, v))

canvasWorldToScreen(v, x, y) ==
  [sx |-> RMul(RAdd(x, v.x), v.scale), sy |-> RMul(RAdd(y, v.y), v.scale)]

\* variant: the convention of ConversationGraph, (sx - vp.x) / vp.scale
canvasScreenToWorldOfGraph(v, sx, sy) ==
  [x |-> RDiv(RSub(sx, v.x), v.scale), y |-> RDiv(RSub(sy, v.y), v.scale)]

canvasScreenToWorld(v, sx, sy) ==
  [x |-> RSub(RDiv(sx, v.scale), v.x), y |-> RSub(RDiv(sy, v.scale), v.y)]

\* Object.values(scene.nodes).reverse().find(n => pointInRect(x, y, n)): the id of
\* the node found, NoId for undefined
hitTest(ns, x, y) ==
  LET rs == reverse(ns)
      found == {i \in 1..Len(rs) : pointInRect(x, y, rs[i])}
  IN IF found = {} THEN NoId
     ELSE rs[CHOOSE i \in found : \A j \in found : i <= j].id

\* the node with a given id (the id is present)
NodeOf(ns, id) == ns[CHOOSE i \in 1..Len(ns) : ns[i].id = id]

HasNode(ns, id) == \E i \in 1..Len(ns) : ns[i].id = id

\* the effect on selectedId: the selected node is moved to the end of scene.nodes
bringToFront(ns, sel) ==
  IF sel = NoId THEN ns
  ELSE IF Len(ns) > 0 /\ ns[Len(ns)].id = sel THEN ns
  ELSE IF ~HasNode(ns, sel) THEN ns
  ELSE SelectSeq(ns, LAMBDA n : n.id /= sel) \o <<NodeOf(ns, sel)>>

graphVars == <<nodes, edges, vp, panning, dragging, selectedId, editing, editingValue,
               contextMenu, nextId, requests>>

canvasOnWheel(p, deltaY) ==
  LET mx == R(p[1])
      my == R(p[2])
      delta == R(-deltaY)
      zoomIntensity == <<3, 2000>>
      prevVp == cv.vp
      newScale == clamp(RMul(prevVp.scale, RAdd(R(1), RMul(delta, zoomIntensity))),
                        <<1, 4>>, R(3))
      worldX == RSub(RDiv(mx, prevVp.scale), prevVp.x)
      worldY == RSub(RDiv(my, prevVp.scale), prevVp.y)
      newX == RSub(RDiv(mx, newScale), worldX)
      newY == RSub(RDiv(my, newScale), worldY)
  IN /\ cv' = [cv EXCEPT !.vp = [x |-> newX, y |-> newY, scale |-> newScale]]
     /\ UNCHANGED graphVars

canvasOnMouseDown(p) ==
  LET w == canvasScreenToWorld(cv.vp, R(p[1]), R(p[2]))
      hit == hitTest(cv.nodes, w.x, w.y)
  IN /\ IF hit /= NoId
        THEN cv' = [cv EXCEPT
                      !.selectedId = hit,
                      !.panning = NoPanning,
                      !.dragging = [id |-> hit,
                                    dx |-> RSub(w.x, NodeOf(cv.nodes, hit).x),
                                    dy |-> RSub(w.y, NodeOf(cv.nodes, hit).y)],
                      !.nodes = IF hit /= cv.selectedId
                                THEN draw(bringToFront(cv.nodes, hit)) ELSE cv.nodes]
        ELSE cv' = [cv EXCEPT
                      !.selectedId = NoId,
                      !.dragging = NoDragging,
                      !.panning = [active |-> TRUE, sx |-> p[1], sy |-> p[2],
                                   ox |-> cv.vp.x, oy |-> cv.vp.y]]
     /\ UNCHANGED graphVars

canvasOnMouseMove(p) ==
  LET w == canvasScreenToWorld(cv.vp, R(p[1]), R(p[2]))
  IN /\ IF cv.dragging.id /= NoId
        THEN cv' = [cv EXCEPT
                      !.nodes = IF HasNode(cv.nodes, cv.dragging.id)
                                THEN draw([i \in 1..Len(cv.nodes) |->
                                             IF cv.nodes[i].id = cv.dragging.id
                                             THEN [cv.nodes[i] EXCEPT
                                                     !.x = RSub(w.x, cv.dragging.dx),
                                                     !.y = RSub(w.y, cv.dragging.dy)]
                                             ELSE cv.nodes[i]])
                                ELSE cv.nodes]
        ELSE cv' = [cv EXCEPT
                      !.hoverId = hitTest(cv.nodes, w.x, w.y),
                      !.vp = IF cv.panning.active
                             THEN [cv.vp EXCEPT
                                     !.x = RAdd(cv.panning.ox,
                                                RDiv(R(p[1] - cv.panning.sx), cv.vp.scale)),
                                     !.y = RAdd(cv.panning.oy,
                                                RDiv(R(p[2] - cv.panning.sy), cv.vp.scale))]
                             ELSE cv.vp]
     /\ UNCHANGED graphVars

canvasOnMouseUp ==
  /\ cv' = [cv EXCEPT !.panning = NoPanning, !.dragging = NoDragging]
  /\ UNCHANGED graphVars

\* the Reset View button
canvasResetView ==
  /\ cv' = [cv EXCEPT !.vp = [x |-> R(0), y |-> R(0), scale |-> R(1)]]
  /\ UNCHANGED graphVars

\* addChild(parentId) up to its first await
addChild(parentId) ==
  /\ HasNode(cv.nodes, parentId)
  /\ LET parent == NodeOf(cv.nodes, parentId)
         id == uid(cv.nextId)
         child == [id |-> id, x |-> RAdd(RAdd(parent.x, parent.w), R(120)),
                   y |-> parent.y, w |-> R(220), h |-> R(60), text |-> <<>>,
                   parentId |-> NoId]
     IN cv' = [cv EXCEPT !.nodes = draw(Append(cv.nodes, child)),
                         !.edges = Append(cv.edges, [from |-> parentId, to |-> id]),
                         !.streams = Append(cv.streams, [id |-> id, pos |-> 0]),
                         !.nextId = id]
  /\ UNCHANGED graphVars

\* one pass of the for await loop of addChild: fakeStream yields a character
addChildChunk(k) ==
  /\ k \in 1..Len(cv.streams)
  /\ cv.streams[k].pos < Len(STREAM_TEXT)
  /\ LET id == cv.streams[k].id
         chunk == STREAM_TEXT[cv.streams[k].pos + 1]
     IN cv' = [cv EXCEPT
                 !.nodes = draw([i \in 1..Len(cv.nodes) |->
                                   IF cv.nodes[i].id = id
                                   THEN [cv.nodes[i] EXCEPT !.text = @ \o <<chunk>>]
                                   ELSE cv.nodes[i]]),
                 !.streams[k].pos = @ + 1]
  /\ UNCHANGED graphVars

(***************************************************************************)
(* ConversationCanvas: specification                                       *)
(***************************************************************************)
\* positions of the mouse on the canvas: in the root node, where the root node is
\* dragged to, on the border the dragged root then shares with its child, in
\* the child only, and on the background
CanvasPoints == {<<110, 110>>, <<230, 110>>, <<364, 110>>, <<370, 110>>, <<600, 400>>}

\* where the mouse moves to with a button down
CanvasMovePoints == {<<230, 110>>, <<600, 400>>}

\* where the wheel is turned
WheelPoints == {<<110, 110>>}

\* wheel movements (deltaY): zoom out, and beyond both ends of the scale
WheelDeltas == {400, -2000, 2000}

RECURSIVE Streamed(_)
Streamed(ss) == IF ss = <<>> THEN 0 ELSE Head(ss).pos + Streamed(Tail(ss))

\* the sizes explored: nodes added, characters streamed
CanvasBounded ==
  /\ cv'.nextId <= MaxCanvasIds /\ Streamed(cv'.streams) <= MaxChars
  /\ event' = event /\ pending' = pending /\ grab' = grab /\ chat' = chat

\* addChild is defined by the component without being bound to a control; it is
\* what puts a second node on the canvas
CanvasEvent == Counted(MaxCanvasEvents) /\ CanvasBounded

NextCanvas ==
  \/ \E p \in CanvasPoints : canvasOnMouseDown(p) /\ CanvasEvent
  \/ \E p \in CanvasMovePoints : canvasOnMouseMove(p) /\ CanvasEvent
  \/ canvasOnMouseUp /\ CanvasEvent
  \/ \E p \in WheelPoints, deltaY \in WheelDeltas : canvasOnWheel(p, deltaY) /\ CanvasEvent
  \/ canvasResetView /\ CanvasEvent
  \/ \E n \in 1..MaxCanvasIds : addChild(n) /\ Free /\ CanvasBounded
  \/ \E k \in 1..MaxCanvasIds : addChildChunk(k) /\ Free /\ CanvasBounded

SpecCanvas == Init /\ [][NextCanvas]_vars

(***************************************************************************)
(* SpecView: the viewport, pan and drag of both components                 *)
(***************************************************************************)
\* the event handled by a step of SpecView
Ev(type, p, deltaY) == [type |-> type, x |-> p[1], y |-> p[2], deltaY |-> deltaY]

\* the client position p lies on the rendered node n, under the current viewport
Hits(n, p) ==
  LET w == screenToWorld(vp, p[1], p[2])
  IN /\ RLe(nodes[n].x, w.x) /\ RLe(w.x, RAdd(nodes[n].x, nodes[n].w))
     /\ RLe(nodes[n].y, w.y) /\ RLe(w.y, RAdd(nodes[n].y, nodes[n].h))

ViewPoints == {<<130, 120>>, <<130, 240>>, <<400, 300>>}

ViewMovePoints == {<<150, 150>>, <<400, 300>>}

CanvasViewPoints == {<<110, 110>>, <<600, 400>>}

\* at most MaxViewEvents events, each recorded in event
Viewed(e) ==
  /\ Counted(MaxViewEvents) /\ event' = e /\ pending' = pending
  /\ grab' = IF e.type = "mousedown" THEN screenToWorld(vp, e.x, e.y) ELSE grab
  /\ chat' = chat

\* SpecView: mouse down on the background and on nodes, mouse move, mouse up, wheel
\* and Reset View of ConversationGraph, and the same events of ConversationCanvas,
\* in any order, while the first request of the graph is pending.
NextView ==
  \/ \E p \in ViewPoints :
        /\ \A n \in Shown : ~Hits(n, p)
        /\ onMouseDown(p) /\ Viewed(Ev("mousedown", p, 0))
  \/ \E n \in Shown : \E p \in ViewPoints :
        /\ \A m \in Shown : Hits(m, p) <=> m = n
        /\ onNodeMouseDown(n, p) /\ Viewed(Ev("nodemousedown", p, 0))
  \/ \E p \in ViewMovePoints : onMouseMove(p) /\ Viewed(Ev("mousemove", p, 0))
  \/ onMouseUp /\ Viewed(Ev("mouseup", <<0, 0>>, 0))
  \/ \E p \in WheelPoints, deltaY \in WheelDeltas :
        onWheel(p, deltaY) /\ Viewed(Ev("wheel", p, deltaY))
  \/ resetView /\ Viewed(Ev("reset", <<0, 0>>, 0))
  \/ \E p \in CanvasViewPoints :
        canvasOnMouseDown(p) /\ Viewed(Ev("canvasmousedown", p, 0))
  \/ \E p \in CanvasMovePoints :
        canvasOnMouseMove(p) /\ Viewed(Ev("canvasmousemove", p, 0))
  \/ canvasOnMouseUp /\ Viewed(Ev("canvasmouseup", <<0, 0>>, 0))
  \/ \E p \in WheelPoints, deltaY \in WheelDeltas :
        canvasOnWheel(p, deltaY) /\ Viewed(Ev("canvaswheel", p, deltaY))
  \/ canvasResetView /\ Viewed(Ev("canvasreset", <<0, 0>>, 0))

SpecView == InitStream /\ [][NextView]_vars

(***************************************************************************)
(* Properties of the scene (Spec)                                          *)
(***************************************************************************)
\* C1: every node of scene.nodes whose parentId is set has its parent in
\* scene.nodes
C1_ParentExists ==
  \A k \in DOMAIN nodes :
     nodes[k].parentId /= NoId => nodes[k].parentId \in DOMAIN nodes

\* C2: the edges are exactly the parent -> child pairs: the node an edge points
\* to has the edge's source as its parentId, and every node with a parentId has
\* the edge from that parent
C2_EdgesAreParentLinks ==
  /\ \A i \in 1..Len(edges) :
        /\ edges[i].to \in DOMAIN nodes
        /\ nodes[edges[i].to].parentId = edges[i].from
  /\ \A k \in DOMAIN nodes :
        nodes[k].parentId /= NoId =>
          \E i \in 1..Len(edges) : edges[i].from = nodes[k].parentId /\ edges[i].to = k

\* the targets of the edges that leave a node of S
EdgeTargets(S) == {edges[i].to : i \in {j \in 1..Len(edges) : edges[j].from \in S}}

\* the nodes reached from S by following at least one and at most k edges
RECURSIVE ReachedIn(_, _)
ReachedIn(S, k) ==
  IF k = 0 THEN {} ELSE EdgeTargets(S) \cup ReachedIn(EdgeTargets(S), k - 1)

\* C3: with fresh ids the edges form a forest: no edge from a node to itself,
\* at most one edge into any node, and no way back to a node along the edges
C3_EdgesFormForest ==
  /\ \A i \in 1..Len(edges) : edges[i].from /= edges[i].to
  /\ \A i, j \in 1..Len(edges) : edges[i].to = edges[j].to => i = j
  /\ \A i \in 1..Len(edges) :
        edges[i].from \notin ReachedIn({edges[i].from}, Len(edges))

\* a response and a branch from a selection in its text are linked in a chain
C3_Witness ==
  /\ Len(edges) >= 2
  /\ \E i \in 1..Len(edges) : edges[i].fromPoint /= NoFromPoint
  /\ \E i, j \in 1..Len(edges) : edges[i].to = edges[j].from

(***************************************************************************)
(* Properties of the streams (SpecStream)                                  *)
(***************************************************************************)
IsPrefix(a, b) == Len(a) <= Len(b) /\ SubSeq(b, 1, Len(a)) = a

\* this step processes a chunk of the response to request r
ChunkStep(r) == requests'[r].reads = requests[r].reads + 1

C5_FailureWritesError ==
  [][\A r \in 1..Len(requests) :
       requests'[r].broke =>
         IF requests[r].broke
         THEN requests'[r] = requests[r]
         ELSE /\ requests'[r].pc = "failed"
              /\ requests[r].bot \in DOMAIN nodes'
              /\ nodes'[requests[r].bot].text = ERROR_TEXT
              /\ requests'[r].calls = 0
              /\ requests'[r].fetches = 1
              /\ nextId' = nextId
              /\ edges' = edges
              /\ Len(requests') = Len(requests)]_vars

\* a response broke on a malformed event after part of its text had been shown
C5_Witness ==
  \E r \in 1..Len(requests) :
     /\ requests[r].broke
     /\ requests[r].pc = "failed"
     /\ requests[r].sent /= <<>>
     /\ Complete(nodes, requests[r].bot)
     /\ nodes[requests[r].bot].text = ERROR_TEXT

\* C6: once [DONE] or finish_reason 'stop' has been processed the stream is
\* over: no later event, of the same chunk or of a later one, changes the bot
\* text, nothing more is read, and createNextUserNode is called exactly once
C6_StreamEnds ==
  [][\A r \in 1..Len(requests) :
       requests'[r].over =>
         IF requests[r].over
         THEN /\ requests'[r] = requests[r]
              /\ (Complete(nodes, requests[r].bot) /\ Complete(nodes', requests[r].bot))
                   => nodes'[requests[r].bot].text = nodes[requests[r].bot].text
         ELSE /\ requests'[r].pc = "done"
              /\ requests'[r].calls = 1
              /\ requests'[r].assistantText = requests'[r].sent
              /\ IF requests'[r].sent /= requests[r].sent
                 THEN /\ requests[r].bot \in DOMAIN nodes'
                      /\ nodes'[requests[r].bot].text = requests'[r].sent
                 ELSE requests[r].bot \in DOMAIN nodes =>
                        /\ requests[r].bot \in DOMAIN nodes'
                        /\ nodes'[requests[r].bot] = nodes[requests[r].bot]]_vars

\* a response ended on an event that was followed by another one in the same
\* chunk, and its follow-up user node exists
C6_Witness ==
  \E r \in 1..Len(requests) :
     /\ requests[r].over
     /\ requests[r].rest > 0
     /\ requests[r].pc = "done"
     /\ requests[r].sent /= <<>>
     /\ Complete(nodes, requests[r].bot)
     /\ \E k \in DOMAIN nodes : nodes[k].parentId = requests[r].bot

\* C7: the update made for a chunk changes the text of the request's bot node
\* and nothing else: the node's other fields, the other nodes, the set of node
\* ids and the edges stay as they are
C7_ChunkChangesTextOnly ==
  [][\A r \in 1..Len(requests) :
       (ChunkStep(r) /\ requests'[r].pc = "read")
       => /\ DOMAIN nodes' = DOMAIN nodes
          /\ edges' = edges
          /\ \A k \in DOMAIN nodes \ {requests[r].bot} : nodes'[k] = nodes[k]
          /\ requests[r].bot \in DOMAIN nodes =>
               nodes'[requests[r].bot] =
                 [nodes[requests[r].bot] EXCEPT !.text = nodes'[requests[r].bot].text]]_vars

\* the deltas the response to request r is made of
OwnTokens(r) == {Tok(r, c, i) : c \in 1..MaxReads, i \in 1..MaxLines}

\* the bot text of a request is the placeholder, the error string or a prefix of
\* its own response, and no other node holds a delta of that response
TextsKeptApart ==
  \A r \in 1..Len(requests) :
     /\ requests[r].bot \in DOMAIN nodes =>
          \/ nodes[requests[r].bot].text \in {LOADING_PLACEHOLDER, ERROR_TEXT}
          \/ IsPrefix(nodes[requests[r].bot].text, requests[r].sent)
     /\ \A i \in 1..Len(requests[r].sent) : requests[r].sent[i] \in OwnTokens(r)
     /\ \A k \in DOMAIN nodes \ {requests[r].bot} :
          \A i \in 1..Len(nodes[k].text) : nodes[k].text[i] \notin OwnTokens(r)

\* processing a chunk of request r keeps every other node, and the bot node's
\* other fields, as the gestures made so far left them
ChunkKeepsGestures ==
  \A r \in 1..Len(requests) :
     ChunkStep(r) =>
       /\ \A k \in DOMAIN nodes \ {requests[r].bot} :
             k \in DOMAIN nodes' /\ nodes'[k] = nodes[k]
       /\ requests[r].bot \in DOMAIN nodes =>
             /\ requests[r].bot \in DOMAIN nodes'
             /\ nodes'[requests[r].bot] =
                  [nodes[requests[r].bot] EXCEPT !.text = nodes'[requests[r].bot].text]
       /\ IsPrefix(edges, edges')

ProbePoints == {<<R(0), R(0)>>, <<R(110), R(110)>>, <<R(-7), R(364)>>, <<<<1, 3>>, <<-5, 2>>>>}

\* C9: for every viewport with scale in [0.25, 3], worldToScreen and
\* screenToWorld of ConversationCanvas are inverse to each other, in both
\* directions
C9_TransformsAreInverse ==
  (RLe(<<1, 4>>, cv.vp.scale) /\ RLe(cv.vp.scale, R(3))) =>
    \A p \in ProbePoints :
       /\ LET s == canvasWorldToScreen(cv.vp, p[1], p[2])
          IN canvasScreenToWorld(cv.vp, s.sx, s.sy) = [x |-> p[1], y |-> p[2]]
       /\ LET w == canvasScreenToWorld(cv.vp, p[1], p[2])
          IN canvasWorldToScreen(cv.vp, w.x, w.y) = [sx |-> p[1], sy |-> p[2]]

\* the viewport has been zoomed to the lower end of the scale and is shifted
C9_Witness ==
  /\ cv.vp.scale = <<1, 4>>
  /\ cv.vp.x /= R(0)
  /\ cv.vp.y /= R(0)

\* the places in scene.nodes order of the nodes whose rectangle, borders
\* included, contains the world position (x, y)
Containing(ns, x, y) ==
  {i \in 1..Len(ns) :
     /\ IsNum(x) /\ IsNum(y)
     /\ ns[i].x[1] * x[2] <= x[1] * ns[i].x[2]
     /\ RSub(RAdd(ns[i].x, ns[i].w), x)[1] >= 0
     /\ ns[i].y[1] * y[2] <= y[1] * ns[i].y[2]
     /\ RSub(RAdd(ns[i].y, ns[i].h), y)[1] >= 0}

\* a mouse down step: it is the one step that sets dragging or panning
MouseDownStep ==
  /\ cv'.dragging /= cv.dragging \/ cv'.panning /= cv.panning
  /\ cv'.dragging.id /= NoId \/ cv'.panning.active

\* C10: a mouse down on the canvas selects and starts dragging the node that is
\* last in scene.nodes order among the nodes whose rectangle, borders included,
\* contains the world position; when there is none, the selection and the drag
\* are cleared and panning starts
C10_MouseDownHitsLast ==
  [][MouseDownStep =>
       IF cv'.panning.active
       THEN LET w == canvasScreenToWorld(cv.vp, R(cv'.panning.sx), R(cv'.panning.sy))
            IN /\ Containing(cv.nodes, w.x, w.y) = {}
               /\ cv'.selectedId = NoId
               /\ cv'.dragging = NoDragging
       ELSE \E i \in 1..Len(cv.nodes) :
               LET n == cv.nodes[i]
                   x == RAdd(n.x, cv'.dragging.dx)
                   y == RAdd(n.y, cv'.dragging.dy)
               IN /\ n.id = cv'.dragging.id
                  /\ \E p \in CanvasPoints :
                        canvasScreenToWorld(cv.vp, R(p[1]), R(p[2])) = [x |-> x, y |-> y]
                  /\ i \in Containing(cv.nodes, x, y)
                  /\ \A j \in Containing(cv.nodes, x, y) : j <= i
                  /\ cv'.selectedId = n.id
                  /\ cv'.panning = NoPanning]_vars

\* a node is being dragged from a position that lies in another node as well
C10_Witness ==
  \E i, j \in 1..Len(cv.nodes) :
     /\ i /= j
     /\ cv.dragging.id = cv.nodes[i].id
     /\ cv.selectedId = cv.nodes[i].id
     /\ {i, j} \subseteq Containing(cv.nodes, RAdd(cv.nodes[i].x, cv.dragging.dx),
                                    RAdd(cv.nodes[i].y, cv.dragging.dy))

(***************************************************************************)
(* ConversationGraph: the size-measurement effect                          *)
(***************************************************************************)
\* Math.abs(a - b) > 0.1
Differs(a, b) == ~(RLe(RSub(a, b), <<1, 10>>) /\ RLe(RSub(b, a), <<1, 10>>))

\* rect.width / vp.scale, rect.height / vp.scale of the element of a node
MeasuredSizes == {[w |-> R(240), h |-> R(60)], [w |-> R(240), h |-> R(84)]}

\* variant of the update of the effect: the sizes are merged into the scene the
\* update is applied to
measuredMerged(s, newNodes) ==
  [k \in DOMAIN s |->
     IF k \in DOMAIN newNodes /\ IsNum(newNodes[k].w)
     THEN [s[k] EXCEPT !.w = newNodes[k].w, !.h = newNodes[k].h]
     ELSE s[k]]

\* the update of the effect, s => ({ ...s, nodes: newNodes })
measured(s, newNodes) == newNodes

\* the effect runs for a render of the scene: sizes are the sizes of the elements
\* of the rendered nodes; with a change, the update is queued
measureEffect(sizes) ==
  /\ ~pending.queued
  /\ LET newNodes ==
           [k \in DOMAIN nodes |->
              IF k \in DOMAIN sizes
                 /\ (Differs(nodes[k].w, sizes[k].w) \/ Differs(nodes[k].h, sizes[k].h))
              THEN [nodes[k] EXCEPT !.w = sizes[k].w, !.h = sizes[k].h]
              ELSE nodes[k]]
         hasChanges == newNodes /= nodes
     IN /\ hasChanges
        /\ pending' = [queued |-> TRUE, newNodes |-> newNodes]
  /\ UNCHANGED <<nodes, edges, vp, panning, dragging, selectedId, editing, editingValue,
                 contextMenu, nextId, requests, cv, event, grab, chat>>

\* the queued update is applied, after the updates that were queued before it
measureApply ==
  /\ pending.queued
  /\ nodes' = measured(nodes, pending.newNodes)
  /\ pending' = NoPending
  /\ UNCHANGED <<edges, vp, panning, dragging, selectedId, editing, editingValue,
                 contextMenu, nextId, requests, cv, event, grab, chat>>

\* the events of SpecMeasure
Measuring ==
  /\ nextId' <= MaxIds /\ Len(requests') <= 1
  /\ event' = event /\ pending' = pending /\ grab' = grab /\ chat' = chat

MeasureEvent == Counted(MaxMeasureEvents) /\ Measuring

MeasureShapes == {"content", "contentStop"}

\* SpecMeasure: the effect takes the scene of a render, measures, and its update is
\* applied at once or after updates of the stream and of up to MaxMeasureEvents
\* user events (delete, add, drag, edit) that were queued in between.
NextMeasure ==
  \/ \E sizes \in [Shown -> MeasuredSizes] :
        measureEffect(sizes) /\ Free
  \/ measureApply /\ Free
  \/ \E n \in Shown : \E p \in Inside(nodes[n]) : onNodeMouseDown(n, p) /\ MeasureEvent
  \/ \E p \in MovePoints : dragging.id /= NoId /\ onMouseMove(p) /\ MeasureEvent
  \/ \E n \in Ids : onDoubleClick(n) /\ MeasureEvent
  \/ \E v \in EditValues : onInput(v) /\ MeasureEvent
  \/ commitEdit /\ MeasureEvent
  \/ \E n \in Shown : \E p \in Inside(nodes[n]) : onContextMenu(p, n) /\ MeasureEvent
  \/ addNode /\ MeasureEvent
  \/ deleteNode /\ MeasureEvent
  \/ \E r \in 1..MaxRequests : FetchOk(r) /\ Free /\ Measuring
  \/ \E r \in 1..MaxRequests : ReadDone(r) /\ Free /\ Measuring
  \/ \E r \in 1..MaxRequests, shape \in MeasureShapes :
        /\ Reads(requests) < MaxMeasureReads
        /\ ReadChunk(r, <<shape>>) /\ Free /\ Measuring

SpecMeasure == InitStream /\ [][NextMeasure]_vars

(***************************************************************************)
(* SpecEdit: editing the text of nodes                                     *)
(***************************************************************************)
\* the scene when the first response, of one content delta, has ended: the root
\* turn, the response, and the follow-up user node, which is being edited
EditScene ==
  (1 :> [RootNode EXCEPT !.text = <<"q">>]
   @@ 2 :> [id |-> 2, x |-> R(100), y |-> R(220), w |-> R(240), h |-> R(60),
            text |-> <<Tok(1, 1, 1)>>, author |-> "llm", parentId |-> 1]
   @@ 3 :> [id |-> 3, x |-> R(100), y |-> R(340), w |-> R(240), h |-> R(60),
            text |-> <<>>, author |-> "user", parentId |-> 2])

InitEdit ==
  /\ nodes = EditScene
  /\ edges = <<[from |-> 1, to |-> 2, fromPoint |-> NoFromPoint],
               [from |-> 2, to |-> 3, fromPoint |-> NoFromPoint]>>
  /\ vp = [x |-> R(0), y |-> R(0), scale |-> R(1)]
  /\ panning = NoPanning
  /\ dragging = NoDragging
  /\ selectedId = 3
  /\ editing = 3
  /\ editingValue = <<>>
  /\ contextMenu = NoContextMenu
  /\ nextId = 3
  /\ requests = <<[NewRequest("bot", 1, 2, <<[role |-> "user", content |-> <<"q">>]>>)
                    EXCEPT !.pc = "done", !.assistantText = <<Tok(1, 1, 1)>>,
                           !.reads = 1, !.calls = 1, !.sent = <<Tok(1, 1, 1)>>,
                           !.over = TRUE]>>
  /\ used = 0
  /\ cv = CanvasInit
  /\ event = NoEvent
  /\ pending = NoPending
  /\ grab = NoGrab
  /\ chat = NoChat

\* what is typed into the text of node n
EditValuesFor(n) == {<<"typed " \o ToString(n)>>}

\* Enter when neither branch of onKey applies: nothing is set
onKeyEnterNothing(shift) ==
  /\ ~(/\ selectedId /= NoId /\ editing = NoId
       /\ selectedId \in DOMAIN nodes /\ nodes[selectedId].author = "user")
  /\ ~(editing /= NoId /\ ~shift)
  /\ UNCHANGED <<nodes, edges, vp, panning, dragging, selectedId, editing, editingValue,
                 contextMenu, nextId, requests, cv>>

\* Space when no branch of onKey applies: nothing is set
onKeySpaceNothing ==
  /\ ~(/\ editing = NoId /\ selectedId /= NoId /\ selectedId \in DOMAIN nodes
       /\ nodes[selectedId].author = "user" /\ NonBlank(nodes[selectedId].text))
  /\ UNCHANGED <<nodes, edges, vp, panning, dragging, selectedId, editing, editingValue,
                 contextMenu, nextId, requests, cv>>

\* at most MaxEditEvents events, each recorded in event
Edited(type) ==
  /\ Counted(MaxEditEvents)
  /\ event' = Ev(type, <<0, 0>>, 0)
  /\ pending' = pending /\ grab' = grab /\ chat' = chat
  /\ nextId' <= MaxEditIds /\ Len(requests') <= MaxEditRequests

\* SpecEdit: double click, mouse down on a text, Enter, Shift+Enter, Escape, input
\* and blur on the user nodes and the llm node of EditScene, in any order, the
\* node under the context menu deleted, and requests started by Space and by the
\* play button (their responses are not part of it).
NextEdit ==
  \/ \E n \in 1..MaxEditIds : onDoubleClick(n) /\ Edited("dblclick")
  \/ \E n \in 1..MaxEditIds : onTextMouseDown(n) /\ Edited("textmousedown")
  \/ (onKeyEnter(FALSE) \/ onKeyEnterNothing(FALSE)) /\ Edited("enter")
  \/ (onKeyEnter(TRUE) \/ onKeyEnterNothing(TRUE)) /\ Edited("shiftenter")
  \/ onKeyEscape /\ Edited("escape")
  \/ \E v \in EditValuesFor(editing) : onInput(v) /\ Edited("input")
  \/ commitEdit /\ Edited("blur")
  \/ \E n \in Shown : \E p \in Inside(nodes[n]) :
        onContextMenu(p, n) /\ Edited("contextmenu")
  \/ deleteNode /\ Edited("delete")
  \/ (onKeySpace \/ onKeySpaceNothing) /\ Edited("space")
  \/ \E n \in Shown : \E sp \in Inside(nodes[n]) :
        onKeySpaceSelection(n, sp) /\ Edited("spaceselection")
  \/ \E n \in 1..MaxEditIds : onPlayClick(n) /\ Edited("play")

SpecEdit == InitEdit /\ [][NextEdit]_vars

\* at most MaxFrameEvents user events, each recorded in event
Framed(e) ==
  /\ Counted(MaxFrameEvents) /\ event' = e /\ pending' = pending
  /\ grab' = IF e.type = "mousedown" THEN screenToWorld(vp, e.x, e.y) ELSE grab
  /\ chat' = chat
  /\ nextId' <= MaxIds

\* a step of the stream of the first request, recorded in event
FrameStream(type) ==
  /\ Free /\ event' = Ev(type, <<0, 0>>, 0) /\ pending' = pending /\ grab' = grab /\ chat' = chat
  /\ nextId' <= MaxIds

FrameShapes == {"content", "contentStop"}

\* SpecFrame: the operations on the viewport (wheel, pan, Reset View) and the
\* operations on the scene (drag, edit, add, delete, stream) in any order, in at
\* most MaxFrameEvents user events, while the first request streams.
NextFrame ==
  \/ \E p \in ViewPoints :
        /\ \A n \in Shown : ~Hits(n, p)
        /\ onMouseDown(p) /\ Framed(Ev("mousedown", p, 0))
  \/ \E n \in Shown : \E p \in ViewPoints :
        /\ \A m \in Shown : Hits(m, p) <=> m = n
        /\ onNodeMouseDown(n, p) /\ Framed(Ev("nodemousedown", p, 0))
  \/ \E p \in ViewMovePoints : onMouseMove(p) /\ Framed(Ev("mousemove", p, 0))
  \/ onMouseUp /\ Framed(Ev("mouseup", <<0, 0>>, 0))
  \/ \E p \in WheelPoints, deltaY \in WheelDeltas :
        onWheel(p, deltaY) /\ Framed(Ev("wheel", p, deltaY))
  \/ resetView /\ Framed(Ev("reset", <<0, 0>>, 0))
  \/ \E n \in Shown : \E p \in ViewPoints :
        /\ \A m \in Shown : Hits(m, p) <=> m = n
        /\ onDoubleClick(n) /\ Framed(Ev("dblclick", p, 0))
  \/ \E v \in EditValuesFor(editing) : onInput(v) /\ Framed(Ev("input", <<0, 0>>, 0))
  \/ commitEdit /\ Framed(Ev("blur", <<0, 0>>, 0))
  \/ \E n \in Shown : \E p \in ViewPoints :
        /\ \A m \in Shown : Hits(m, p) <=> m = n
        /\ onContextMenu(p, n) /\ Framed(Ev("contextmenu", p, 0))
  \/ \E p \in ViewPoints :
        /\ \A n \in Shown : ~Hits(n, p)
        /\ onContextMenu(p, NoId) /\ Framed(Ev("contextmenu", p, 0))
  \/ addNode /\ Framed(Ev("addnode", <<0, 0>>, 0))
  \/ deleteNode /\ Framed(Ev("delete", <<0, 0>>, 0))
  \/ FetchOk(1) /\ FrameStream("fetch")
  \/ ReadDone(1) /\ FrameStream("done")
  \/ \E shape \in FrameShapes :
        /\ Reads(requests) < MaxFrameReads
        /\ ReadChunk(1, <<shape>>) /\ FrameStream("chunk")

SpecFrame == InitStream /\ [][NextFrame]_vars

(***************************************************************************)
(* Response bodies as characters, and the chat views                       *)
(***************************************************************************)
\* the state of the graph and of the canvas, which the chat views do not touch
sceneVars == <<nodes, edges, vp, panning, dragging, selectedId, editing, editingValue,
               contextMenu, nextId, requests, cv, event, pending, grab>>

LF == "\n"

DataPrefix == <<"d", "a", "t", "a", ":", " ">>

DoneText == <<"[", "D", "O", "N", "E", "]">>

\* the characters of delta contents
Letters == {"a", "b"}

\* the JSON text of an event, written {content} or {content!}, the mark ! standing
\* for finish_reason 'stop'
Delta(content, stop) ==
  <<"{">> \o content \o (IF stop THEN <<"!">> ELSE <<>>) \o <<"}">>

\* the characters of one server-sent event
sse(payload) == DataPrefix \o payload \o <<LF, LF>>

\* line.startsWith(p)
startsWith(line, p) == Len(line) >= Len(p) /\ SubSeq(line, 1, Len(p)) = p

\* chunk.split('\n'): cur is the line read so far
RECURSIVE splitFrom(_, _)
splitFrom(chunk, cur) ==
  IF chunk = <<>> THEN <<cur>>
  ELSE IF Head(chunk) = LF THEN <<cur>> \o splitFrom(Tail(chunk), <<>>)
       ELSE splitFrom(Tail(chunk), Append(cur, Head(chunk)))

split(chunk) == splitFrom(chunk, <<>>)

\* JSON.parse(payload) and the reads of choices[0].delta.content and
\* choices[0].finish_reason: ok tells that none of them throws
JSONparse(payload) ==
  LET n == Len(payload)
      closed == n >= 2 /\ payload[1] = "{" /\ payload[n] = "}"
      inner == IF closed THEN SubSeq(payload, 2, n - 1) ELSE <<>>
      stop == inner /= <<>> /\ inner[Len(inner)] = "!"
      content == IF stop THEN SubSeq(inner, 1, Len(inner) - 1) ELSE inner
  IN [ok |-> closed /\ \A i \in 1..Len(content) : content[i] \in Letters,
      content |-> content,
      stop |-> stop]

\* a line of a chunk, with line.replace(/^data: /, '') as its payload
asLine(line) ==
  LET data == startsWith(line, DataPrefix)
      payload == IF data THEN SubSeq(line, Len(DataPrefix) + 1, Len(line)) ELSE line
      parsed == JSONparse(payload)
  IN [data |-> data,
      payload |-> IF payload = DoneText THEN "[DONE]"
                  ELSE IF parsed.ok THEN "json" ELSE "bad",
      content |-> IF payload /= DoneText /\ parsed.ok THEN parsed.content ELSE <<>>,
      stop |-> payload /= DoneText /\ parsed.ok /\ parsed.stop]

\* the lines of a chunk of characters
ChunkLines(chunk) == [i \in 1..Len(split(chunk)) |-> asLine(split(chunk)[i])]

\* the fetch of addBotResponse resolves with a response of the given body
LoopFetchOk(body) ==
  /\ chat.loop.pc = "none"
  /\ chat' = [chat EXCEPT !.loop = [NoLoop EXCEPT !.pc = "read", !.body = body,
                                                  !.rest = body]]
  /\ UNCHANGED sceneVars

\* one pass of the while loop of addBotResponse over the next n characters of
\* the body
LoopRead(n) ==
  /\ chat.loop.pc = "read"
  /\ n \in 1..Len(chat.loop.rest)
  /\ LET chunk == SubSeq(chat.loop.rest, 1, n)
         st == ForLines(DataLines(ChunkLines(chunk)),
                        [assistantText |-> chat.loop.assistantText, finished |-> FALSE,
                         thrown |-> FALSE, updated |-> FALSE])
     IN chat' = [chat EXCEPT !.loop =
                   [pc |-> IF st.thrown THEN "failed"
                           ELSE IF st.finished THEN "ended" ELSE "read",
                    body |-> chat.loop.body,
                    rest |-> SubSeq(chat.loop.rest, n + 1, Len(chat.loop.rest)),
                    assistantText |-> st.assistantText]]
  /\ UNCHANGED sceneVars

\* reader.read() reports the end of the body to addBotResponse
LoopDone ==
  /\ chat.loop.pc = "read"
  /\ chat.loop.rest = <<>>
  /\ chat' = [chat EXCEPT !.loop.pc = "ended"]
  /\ UNCHANGED sceneVars

\* the text of the bot node when the loop of addBotResponse is over
loopText ==
  IF chat.loop.pc = "failed" THEN <<"Error fetching response.">>
  ELSE IF chat.loop.assistantText = <<>> THEN LOADING_PLACEHOLDER
       ELSE chat.loop.assistantText

errorMessage ==
  [role |-> "system", content |-> <<"Error fetching response from the model.">>]

testErrorMessage ==
  [role |-> "assistant", content |-> <<"Error fetching response from the model.">>]

\* prev.filter(m => m.role !== 'assistant_temp')
notTemp(m) == m.role /= "assistant_temp"

filterTemp(prev) == SelectSeq(prev, notTemp)

\* a request of a chat view: cause tells what made the catch block run
NewSend == [pc |-> "fetch", body |-> <<>>, rest |-> <<>>, assistantText |-> <<>>, stopped |-> FALSE,
            cause |-> "none"]

\* variant of the catch block of handleSend: the temporary messages are kept
handleSendCatchAppends(prev) == Append(prev, errorMessage)

\* the updater of the catch block of handleSend
handleSendCatch(prev) == Append(filterTemp(prev), errorMessage)

\* the for loop of handleSend over the data lines of one chunk;
\* st = [assistantText, thrown, stopped, messages].  The updaters passed to
\* setMessages run when the loop is through the chunk; in the bodies read here no
\* content follows a 'stop' within a chunk, so the text they read is the text at
\* their call.
RECURSIVE handleSendLines(_, _)
handleSendLines(lines, st) ==
  IF lines = <<>> THEN st
  ELSE LET line == Head(lines) IN
       IF line.payload = "[DONE]" THEN handleSendLines(Tail(lines), st)
       ELSE IF line.payload = "bad" THEN [st EXCEPT !.thrown = TRUE]
       ELSE LET st1 == IF line.content /= <<>>
                       THEN [st EXCEPT
                               !.assistantText = @ \o line.content,
                               !.messages =
                                  Append(filterTemp(@),
                                         [role |-> "assistant_temp",
                                          content |-> st.assistantText \o line.content])]
                       ELSE st
                st2 == IF line.stop
                       THEN [st1 EXCEPT
                               !.stopped = TRUE,
                               !.messages =
                                  Append(filterTemp(@),
                                         [role |-> "assistant",
                                          content |-> st1.assistantText])]
                       ELSE st1
            IN handleSendLines(Tail(lines), st2)

\* handleSend of the chat view (part_002) with a non-blank input
handleSend(input) ==
  /\ NonBlank(input)
  /\ chat' = [chat EXCEPT
                !.view.messages = @ \o <<[role |-> "user", content |-> input],
                                         [role |-> "assistant_temp", content |-> <<>>]>>,
                !.view.sends = Append(@, NewSend)]
  /\ UNCHANGED sceneVars

\* the catch block runs for request r, left in state send
SendThrow(r, send, prev, cause) ==
  /\ chat' = [chat EXCEPT
                !.view.messages = handleSendCatch(prev),
                !.view.sends[r] = [send EXCEPT !.pc = "failed", !.cause = cause]]
  /\ UNCHANGED sceneVars

\* fetch rejects
SendFetchFails(r) ==
  /\ r \in 1..Len(chat.view.sends)
  /\ chat.view.sends[r].pc = "fetch"
  /\ SendThrow(r, chat.view.sends[r], chat.view.messages, "fetch")

\* the response is not ok
SendFetchNotOk(r) ==
  /\ r \in 1..Len(chat.view.sends)
  /\ chat.view.sends[r].pc = "fetch"
  /\ SendThrow(r, chat.view.sends[r], chat.view.messages, "notok")

SendFetchOk(r, body) ==
  /\ r \in 1..Len(chat.view.sends)
  /\ chat.view.sends[r].pc = "fetch"
  /\ chat' = [chat EXCEPT !.view.sends[r].pc = "read", !.view.sends[r].body = body,
                           !.view.sends[r].rest = body]
  /\ UNCHANGED sceneVars

\* reader.read() rejects
SendReadFails(r) ==
  /\ r \in 1..Len(chat.view.sends)
  /\ chat.view.sends[r].pc = "read"
  /\ SendThrow(r, chat.view.sends[r], chat.view.messages, "read")

\* reader.read() delivers the next n characters of the body
SendRead(r, n) ==
  /\ r \in 1..Len(chat.view.sends)
  /\ chat.view.sends[r].pc = "read"
  /\ n \in 1..Len(chat.view.sends[r].rest)
  /\ LET send == chat.view.sends[r]
         chunk == SubSeq(send.rest, 1, n)
         st == handleSendLines(DataLines(ChunkLines(chunk)),
                               [assistantText |-> send.assistantText, thrown |-> FALSE,
                                stopped |-> send.stopped,
                                messages |-> chat.view.messages])
         send1 == [send EXCEPT !.rest = SubSeq(send.rest, n + 1, Len(send.rest)),
                               !.assistantText = st.assistantText,
                               !.stopped = st.stopped]
     IN IF st.thrown THEN SendThrow(r, send1, st.messages, "parse")
        ELSE /\ chat' = [chat EXCEPT !.view.messages = st.messages,
                                     !.view.sends[r] = send1]
             /\ UNCHANGED sceneVars

\* reader.read() reports the end of the body
SendReadDone(r) ==
  /\ r \in 1..Len(chat.view.sends)
  /\ chat.view.sends[r].pc = "read"
  /\ chat.view.sends[r].rest = <<>>
  /\ chat' = [chat EXCEPT !.view.sends[r].pc = "ended"]
  /\ UNCHANGED sceneVars

\* the body read in one piece: the text addBotResponse and handleSend end with
WholeLoop(body) ==
  ForLines(DataLines(ChunkLines(body)),
           [assistantText |-> <<>>, finished |-> FALSE, thrown |-> FALSE,
            updated |-> FALSE])

WholeSend(body) ==
  handleSendLines(DataLines(ChunkLines(body)),
                  [assistantText |-> <<>>, thrown |-> FALSE, stopped |-> FALSE,
                   messages |-> <<>>])

\* response bodies without a line that fails to parse
SplitBodies ==
  { sse(Delta(<<"a">>, FALSE)) \o sse(Delta(<<"b">>, TRUE)) \o sse(DoneText),
    sse(Delta(<<"a", "b">>, FALSE)) \o sse(DoneText) }

SplitInputs == {<<"hi">>}

\* SpecSplit: one response body is read by addBotResponse and one by handleSend,
\* each cut into reads at any character.
NextSplit ==
  \/ \E body \in SplitBodies : LoopFetchOk(body) /\ Free
  \/ \E n \in 1..MaxBody : LoopRead(n) /\ Free
  \/ LoopDone /\ Free
  \/ \E input \in SplitInputs :
        chat.view.sends = <<>> /\ handleSend(input) /\ Free
  \/ \E body \in SplitBodies : SendFetchOk(1, body) /\ Free
  \/ \E n \in 1..MaxBody : SendRead(1, n) /\ Free
  \/ SendReadDone(1) /\ Free

SpecSplit == Init /\ [][NextSplit]_vars

\* response bodies of the chat view: a delta with 'stop', and [DONE]; a line
\* that does not parse
ChatBodies ==
  { sse(Delta(<<"a">>, TRUE)) \o sse(DoneText),
    sse(<<"x">>) }

ChatInputs == {<<"hi">>}

\* SpecChat: the chat view (part_002): at most MaxSends messages are sent, also
\* while earlier responses stream, and every response fails or is read to its
\* end, cut into reads at any character.
NextChat ==
  \/ \E input \in ChatInputs :
        Len(chat.view.sends) < MaxSends /\ handleSend(input) /\ Free
  \/ \E r \in 1..MaxSends : SendFetchFails(r) /\ Free
  \/ \E r \in 1..MaxSends : SendFetchNotOk(r) /\ Free
  \/ \E r \in 1..MaxSends, body \in ChatBodies : SendFetchOk(r, body) /\ Free
  \/ \E r \in 1..MaxSends : SendReadFails(r) /\ Free
  \/ \E r \in 1..MaxSends, n \in 1..MaxBody : SendRead(r, n) /\ Free
  \/ \E r \in 1..MaxSends : SendReadDone(r) /\ Free

SpecChat == Init /\ [][NextChat]_vars

(***************************************************************************)
(* The chat view of Test.tsx                                               *)
(***************************************************************************)
\* the updater of the catch block of handleSend
testHandleSendCatch(prev) == Append(prev, testErrorMessage)

\* handleSend with a non-blank input
testHandleSend(input) ==
  /\ NonBlank(input)
  /\ chat' = [chat EXCEPT
                !.test.messages = Append(@, [role |-> "user", content |-> input]),
                !.test.sends = Append(@, NewSend)]
  /\ UNCHANGED sceneVars

\* the catch block runs for request r, left in state send
TestThrow(r, send, prev, cause) ==
  /\ chat' = [chat EXCEPT
                !.test.messages = testHandleSendCatch(prev),
                !.test.sends[r] = [send EXCEPT !.pc = "failed", !.cause = cause]]
  /\ UNCHANGED sceneVars

\* fetch rejects
TestFetchFails(r) ==
  /\ r \in 1..Len(chat.test.sends)
  /\ chat.test.sends[r].pc = "fetch"
  /\ TestThrow(r, chat.test.sends[r], chat.test.messages, "fetch")

\* the response is not ok
TestFetchNotOk(r) ==
  /\ r \in 1..Len(chat.test.sends)
  /\ chat.test.sends[r].pc = "fetch"
  /\ TestThrow(r, chat.test.sends[r], chat.test.messages, "notok")

TestFetchOk(r, body) ==
  /\ r \in 1..Len(chat.test.sends)
  /\ chat.test.sends[r].pc = "fetch"
  /\ chat' = [chat EXCEPT !.test.sends[r].pc = "read", !.test.sends[r].body = body,
                           !.test.sends[r].rest = body]
  /\ UNCHANGED sceneVars

\* reader.read() rejects
TestReadFails(r) ==
  /\ r \in 1..Len(chat.test.sends)
  /\ chat.test.sends[r].pc = "read"
  /\ TestThrow(r, chat.test.sends[r], chat.test.messages, "read")

\* reader.read() delivers the next n characters of the body; the for loop is
\* the one of part_002
TestRead(r, n) ==
  /\ r \in 1..Len(chat.test.sends)
  /\ chat.test.sends[r].pc = "read"
  /\ n \in 1..Len(chat.test.sends[r].rest)
  /\ LET send == chat.test.sends[r]
         chunk == SubSeq(send.rest, 1, n)
         st == handleSendLines(DataLines(ChunkLines(chunk)),
                               [assistantText |-> send.assistantText, thrown |-> FALSE,
                                stopped |-> send.stopped,
                                messages |-> chat.test.messages])
         send1 == [send EXCEPT !.rest = SubSeq(send.rest, n + 1, Len(send.rest)),
                               !.assistantText = st.assistantText,
                               !.stopped = st.stopped]
     IN IF st.thrown THEN TestThrow(r, send1, st.messages, "parse")
        ELSE /\ chat' = [chat EXCEPT !.test.messages = st.messages,
                                     !.test.sends[r] = send1]
             /\ UNCHANGED sceneVars

\* reader.read() reports the end of the body: the loop is left and
\* response.json() is awaited; the body is locked to the reader and has been
\* read, so response.json() rejects and the catch block runs
TestReadDone(r) ==
  /\ r \in 1..Len(chat.test.sends)
  /\ chat.test.sends[r].pc = "read"
  /\ chat.test.sends[r].rest = <<>>
  /\ TestThrow(r, chat.test.sends[r], chat.test.messages, "json")

\* SpecTest: the chat view of Test.tsx: at most MaxSends messages are sent, and
\* every response fails or is read to its end, cut into reads at any character.
NextTest ==
  \/ \E input \in ChatInputs :
        Len(chat.test.sends) < MaxSends /\ testHandleSend(input) /\ Free
  \/ \E r \in 1..MaxSends : TestFetchFails(r) /\ Free
  \/ \E r \in 1..MaxSends : TestFetchNotOk(r) /\ Free
  \/ \E r \in 1..MaxSends, body \in ChatBodies : TestFetchOk(r, body) /\ Free
  \/ \E r \in 1..MaxSends : TestReadFails(r) /\ Free
  \/ \E r \in 1..MaxSends, n \in 1..MaxBody : TestRead(r, n) /\ Free
  \/ \E r \in 1..MaxSends : TestReadDone(r) /\ Free

SpecTest == Init /\ [][NextTest]_vars

(***************************************************************************)
(* SpecTalk: conversations of several turns                                *)
(***************************************************************************)
TalkIds == 1..MaxTalkIds

Talked ==
  /\ nextId' <= MaxTalkIds /\ Len(requests') <= MaxTalkRequests
  /\ event' = event /\ pending' = pending /\ grab' = grab /\ chat' = chat

\* no request is under way
Quiet == \A r \in 1..Len(requests) : requests[r].pc \in {"done", "failed"}

\* the chunks of SpecTalk: one line each
TalkShapes == {"content"}

\* SpecTalk: turns are written, sent (play button, Space) one after the other,
\* answered by streams of one-line chunks and branched from a selection, and a node
\* is deleted, with up to MaxTalkIds ids and MaxTalkRequests requests.
NextTalk ==
  \/ \E n \in TalkIds : onDoubleClick(n) /\ Free /\ Talked
  \/ \E v \in EditValues : onInput(v) /\ Free /\ Talked
  \/ commitEdit /\ Free /\ Talked
  \/ onKeyEscape /\ Free /\ Talked
  \/ Quiet /\ onKeySpace /\ Free /\ Talked
  \/ \E n \in TalkIds : Quiet /\ onPlayClick(n) /\ Free /\ Talked
  \/ \E n \in Shown : \E sp \in Inside(nodes[n]) :
        Quiet /\ onKeySpaceSelection(n, sp) /\ Free /\ Talked
  \/ \E n \in Shown : \E p \in Inside(nodes[n]) :
        onContextMenu(p, n) /\ Counted(MaxTalkMenus) /\ Talked
  \/ deleteNode /\ Free /\ Talked
  \/ \E r \in 1..MaxTalkRequests : FetchOk(r) /\ Free /\ Talked
  \/ \E r \in 1..MaxTalkRequests : ReadDone(r) /\ Free /\ Talked
  \/ \E r \in 1..MaxTalkRequests, shape \in TalkShapes :
        /\ Reads(requests) < MaxTalkReads
        /\ ReadChunk(r, <<shape>>) /\ Free /\ Talked

SpecTalk == Init /\ [][NextTalk]_vars

(***************************************************************************)
(* C11: in ConversationGraph and in ConversationCanvas, after any sequence *)
(* of wheel, pan, drag and Reset View events, with any deltaY, the scale   *)
(* of the viewport lies between 0.25 and 3.                                *)
(***************************************************************************)
C11_ScaleStaysClamped ==
  /\ RLe(<<1, 4>>, vp.scale) /\ RLe(vp.scale, R(3))
  /\ RLe(<<1, 4>>, cv.vp.scale) /\ RLe(cv.vp.scale, R(3))

\* a wheel turn was cut at a limit in each component
C11_Witness ==
  /\ event.type \in {"wheel", "canvaswheel"}
  /\ vp.scale = <<1, 4>>
  /\ cv.vp.scale = R(3)

(***************************************************************************)
(* C12: a wheel turn keeps the world point under the cursor where it is:   *)
(* the cursor position maps to the same world point under the viewport     *)
(* before and after the turn, also when the scale is cut at a limit, in    *)
(* ConversationGraph and in ConversationCanvas.                            *)
(***************************************************************************)
C12_WheelKeepsCursorPoint ==
  [][/\ event'.type = "wheel" =>
          screenToWorld(vp', event'.x, event'.y) = screenToWorld(vp, event'.x, event'.y)
     /\ event'.type = "canvaswheel" =>
          canvasScreenToWorld(cv'.vp, R(event'.x), R(event'.y))
            = canvasScreenToWorld(cv.vp, R(event'.x), R(event'.y))]_vars

\* both components have zoomed, the last turn was cut at a limit and moved the viewport
C12_Witness ==
  /\ event.type = "canvaswheel"
  /\ cv.vp.scale = <<1, 4>> /\ cv.vp.x /= R(0)
  /\ vp.scale = R(3) /\ vp.x /= R(0)

(***************************************************************************)
(* C13: ConversationGraph: node mouse down records the world position of   *)
(* the cursor minus the position of the node; while that node is dragged   *)
(* and in the scene, after every mouse move the world position of the      *)
(* cursor minus the position of the node is the recorded (dx, dy), under   *)
(* whatever viewport the move finds, and the move changes nothing but the  *)
(* x and y of that node.                                                   *)
(***************************************************************************)
C13_DragKeepsOffset ==
  [][/\ event'.type = "nodemousedown" =>
          LET w == screenToWorld(vp, event'.x, event'.y)
              n == dragging'.id
          IN /\ n \in DOMAIN nodes
             /\ dragging'.dx = RSub(w.x, nodes[n].x)
             /\ dragging'.dy = RSub(w.y, nodes[n].y)
     /\ (event'.type = "mousemove" /\ dragging.id \in DOMAIN nodes) =>
          LET w == screenToWorld(vp', event'.x, event'.y)
              n == dragging.id
          IN /\ RSub(w.x, nodes'[n].x) = dragging.dx
             /\ RSub(w.y, nodes'[n].y) = dragging.dy
             /\ nodes' = [nodes EXCEPT ![n].x = nodes'[n].x, ![n].y = nodes'[n].y]
             /\ UNCHANGED <<edges, vp, panning, dragging, selectedId, editing,
                            editingValue, contextMenu, nextId, requests, cv>>]_vars

\* the root node was grabbed at (130, 120) under the initial viewport, the viewport
\* was zoomed, and then the mouse moved
C13_Witness ==
  /\ event.type = "mousemove"
  /\ used = 3
  /\ dragging = [id |-> 1, dx |-> R(30), dy |-> R(20)]
  /\ vp.scale /= R(1)
  /\ nodes[1].x /= R(100)

(***************************************************************************)
(* C14: ConversationGraph: after onMouseUp panning and dragging are both   *)
(* null; they stay null until the next mouse down, and until then no mouse *)
(* move changes the viewport or the position of a node.                    *)
(***************************************************************************)
C14_MouseUpEndsGesture ==
  [][/\ event'.type = "mouseup" => panning' = NoPanning /\ dragging' = NoDragging
     /\ (/\ panning = NoPanning /\ dragging = NoDragging
         /\ event'.type \notin {"mousedown", "nodemousedown"}) =>
          panning' = NoPanning /\ dragging' = NoDragging
     /\ (/\ panning = NoPanning /\ dragging = NoDragging
         /\ event'.type = "mousemove") =>
          vp' = vp /\ nodes' = nodes]_vars

\* the root node was dragged and released, and then the mouse moved
C14_Witness ==
  /\ event.type = "mousemove"
  /\ panning = NoPanning /\ dragging = NoDragging
  /\ nodes[1].x /= R(100)

(***************************************************************************)
(* C15: ConversationGraph: panning and dragging are never both non-null,   *)
(* in every state reached by background mouse down, node mouse down, mouse *)
(* move and mouse up in any order.                                         *)
(***************************************************************************)
C15_PanningExcludesDragging == ~(panning /= NoPanning /\ dragging /= NoDragging)

(***************************************************************************)
(* C16: ConversationGraph: the history sent for a request holds one        *)
(* message for every turn on the conversation path from the root to the    *)
(* requesting user turn; below a branch made by addBranchFromSelection the *)
(* quoted user turn and the turns above it are turns of that path.         *)
(* Stated for requests made in scenes whose entries are all complete       *)
(* nodes.                                                                  *)
(***************************************************************************)
EdgesInto(n) == {i \in 1..Len(edges) : edges[i].to = n}

\* the turns on the path of edges that ends at node n; an edge with a fromPoint
\* stands for the quoted user turn between its ends
RECURSIVE TurnsTo(_)
TurnsTo(n) ==
  IF EdgesInto(n) = {} THEN 1
  ELSE LET e == edges[CHOOSE i \in EdgesInto(n) : TRUE]
       IN TurnsTo(e.from) + (IF e.fromPoint = NoFromPoint THEN 1 ELSE 2)

C16_HistoryHoldsPath ==
  [][(/\ Len(requests') = Len(requests) + 1
      /\ \A k \in DOMAIN nodes : Complete(nodes, k)) =>
       LET r == requests'[Len(requests')]
       IN Len(r.messages) = IF r.kind = "bot" THEN TurnsTo(r.parent)
                            ELSE TurnsTo(r.parent) + 1]_vars

(***************************************************************************)
(* C17: getConversationHistory(leaf, nodes) returns one message for each   *)
(* node of the parentId chain of leaf, the topmost ancestor reached first  *)
(* and leaf last, with role 'user' for author 'user' and 'assistant'       *)
(* otherwise, and the text as content; the chain stops at the first id     *)
(* that is not a key of nodes, and the result is empty when leaf is not a  *)
(* key.                                                                    *)
(***************************************************************************)
\* the ids of the chain, the topmost first
RECURSIVE Chain(_, _)
Chain(k, ns) == IF k \notin DOMAIN ns THEN <<>> ELSE Append(Chain(ns[k].parentId, ns), k)

C17_HistoryIsParentChain ==
  \A leaf \in 0..(MaxTalkIds + 1) :
     LET h == getConversationHistory(leaf, nodes)
         c == Chain(leaf, nodes)
     IN /\ leaf \notin DOMAIN nodes => h = <<>>
        /\ leaf \in DOMAIN nodes =>
             /\ c[Len(c)] = leaf
             /\ nodes[c[1]].parentId \notin DOMAIN nodes
             /\ \A i \in 2..Len(c) : nodes[c[i]].parentId = c[i - 1]
        /\ Len(h) = Len(c)
        /\ \A i \in 1..Len(c) :
             /\ h[i].role = IF nodes[c[i]].author = "user" THEN "user" ELSE "assistant"
             /\ h[i].content = nodes[c[i]].text

\* a chain of three turns with texts that stops below a deleted ancestor or at the
\* quoted turn of a branch, which is not a key
C17_Witness ==
  \E leaf \in DOMAIN nodes :
     LET h == getConversationHistory(leaf, nodes)
         c == Chain(leaf, nodes)
     IN /\ Len(h) >= 3
        /\ nodes[c[1]].parentId /= NoId
        /\ h[1].role = "assistant" /\ h[2].role = "user" /\ h[3].role = "assistant"
        /\ h[1].content /= h[3].content

(***************************************************************************)
(* C18: getConversationHistory terminates on every reachable scene, from   *)
(* every leaf: the parentId references of scene.nodes form no cycle.       *)
(***************************************************************************)
C18_HistoryTerminates ==
  \A leaf \in 0..(MaxTalkIds + 1) : getConversationHistoryReturns(leaf, nodes)

\* three requests were made and a walk passes five nodes
C18_Witness ==
  /\ Len(requests) = 3
  /\ \E leaf \in DOMAIN nodes : Len(getConversationHistory(leaf, nodes)) >= 5

(***************************************************************************)
(* C19: every entry of scene.nodes is a complete node whose id is its key  *)
(* (a node that deleteNode removed does not come back as the entry a late  *)
(* stream chunk, stream error or commitEdit writes under its id).          *)
(***************************************************************************)
C19_EntriesAreComplete ==
  \A k \in DOMAIN nodes :
     /\ nodes[k].id = k
     /\ nodes[k].author \in {"user", "llm"}
     /\ IsNum(nodes[k].x) /\ IsNum(nodes[k].y) /\ IsNum(nodes[k].w) /\ IsNum(nodes[k].h)

(***************************************************************************)
(* C20: ConversationGraph: selectedId, editing and dragging.id, when they  *)
(* are not null, are ids of nodes that are in scene.nodes, also after      *)
(* deleteNode.                                                             *)
(***************************************************************************)
C20_ReferencesArePresent ==
  /\ selectedId /= NoId => selectedId \in DOMAIN nodes
  /\ editing /= NoId => editing \in DOMAIN nodes
  /\ dragging.id /= NoId => dragging.id \in DOMAIN nodes

(***************************************************************************)
(* C21: ConversationGraph: deleteNode(n) removes the entry n of            *)
(* scene.nodes and the edges whose from or to is n, leaves every other     *)
(* node and edge as it is and closes the context menu; and in every        *)
(* reachable state both ends of every edge of scene.edges are keys of      *)
(* scene.nodes.                                                            *)
(***************************************************************************)
\* a step of deleteNode: the menu that was open on a node closes and the node goes
DeleteStep ==
  /\ contextMenu.open /\ contextMenu.nodeId \in DOMAIN nodes
  /\ ~contextMenu'.open
  /\ contextMenu.nodeId \notin DOMAIN nodes'

EdgeEndsPresent ==
  \A i \in 1..Len(edges) : edges[i].from \in DOMAIN nodes /\ edges[i].to \in DOMAIN nodes

C21_DeleteKeepsEdgeEnds ==
  /\ []EdgeEndsPresent
  /\ [][DeleteStep =>
          LET n == contextMenu.nodeId
          IN /\ DOMAIN nodes' = DOMAIN nodes \ {n}
             /\ \A k \in DOMAIN nodes' : nodes'[k] = nodes[k]
             /\ edges' = SelectSeq(edges, LAMBDA e : e.from /= n /\ e.to /= n)
             /\ contextMenu' = NoContextMenu]_vars

(***************************************************************************)
(* C22: ConversationGraph: once the response stream of a request has ended *)
(* (end of the body, [DONE], finish_reason 'stop', or a failure), the text *)
(* of its bot node is not LOADING_PLACEHOLDER, also when the response      *)
(* carried no content delta.                                               *)
(***************************************************************************)
C22_BotLeavesLoading ==
  \A r \in 1..Len(requests) :
     (requests[r].pc \in {"done", "failed"} /\ requests[r].bot \in DOMAIN nodes)
       => nodes[requests[r].bot].text /= LOADING_PLACEHOLDER

(***************************************************************************)
(* C23: ConversationGraph: when a response stream ends without failure and *)
(* its bot node b is in the scene, one node is added, a user node with     *)
(* empty text, parentId b and position (b.x, b.y + b.h + 60), with one     *)
(* edge from b to it, and selectedId and editing become its id; when b is  *)
(* not in the scene, the scene, selectedId and editing stay as they are.   *)
(***************************************************************************)
C23_StreamEndAddsUserNode ==
  [][\A r \in 1..Len(requests) :
       (requests[r].pc /= "done" /\ requests'[r].pc = "done") =>
         LET b == requests[r].bot
         IN IF b \in DOMAIN nodes
            THEN \E k \in DOMAIN nodes' \ DOMAIN nodes :
                    /\ DOMAIN nodes' = DOMAIN nodes \cup {k}
                    /\ nodes'[k] = [id |-> k, x |-> nodes[b].x,
                                    y |-> RAdd(RAdd(nodes[b].y, nodes[b].h), R(60)),
                                    w |-> R(240), h |-> R(60), text |-> <<>>,
                                    author |-> "user", parentId |-> b]
                    /\ \A j \in DOMAIN nodes \ {b} : nodes'[j] = nodes[j]
                    /\ nodes'[b] = [nodes[b] EXCEPT !.text = nodes'[b].text]
                    /\ edges' = Append(edges, [from |-> b, to |-> k,
                                               fromPoint |-> NoFromPoint])
                    /\ selectedId' = k /\ editing' = k
            ELSE /\ nodes' = nodes /\ edges' = edges
                 /\ selectedId' = selectedId /\ editing' = editing]_vars

StartStep == Len(requests') = Len(requests) + 1

\* the step adds the llm node k below the user node u, and the edge between them
AddsBotNode(u, k) ==
  /\ DOMAIN nodes' = DOMAIN nodes \cup {k}
  /\ \A j \in DOMAIN nodes : nodes'[j] = nodes[j]
  /\ nodes'[k].author = "llm"
  /\ nodes'[k].text = LOADING_PLACEHOLDER
  /\ nodes'[k].parentId = u
  /\ edges' = Append(edges, [from |-> u, to |-> k, fromPoint |-> NoFromPoint])

SpaceNotWhileEditing ==
  (event'.type \in {"space", "spaceselection"} /\ editing /= NoId) => requests' = requests

C26_MeasureChangesSizesOnly ==
  [][(pending.queued /\ ~pending'.queued) =>
       /\ DOMAIN nodes' = DOMAIN nodes
       /\ \A k \in DOMAIN nodes :
            nodes'[k] = [nodes[k] EXCEPT !.w = nodes'[k].w, !.h = nodes'[k].h]]_vars

(***************************************************************************)
(* C27: ConversationGraph: during an active pan every mouse move puts the  *)
(* world point that was under the cursor at mouse down under the cursor    *)
(* again (the content is displaced by the cursor displacement since mouse  *)
(* down) and leaves the scale as it is, also when the wheel has zoomed     *)
(* between the mouse down and the move.                                    *)
(***************************************************************************)
C27_PanFollowsCursor ==
  [][(event'.type = "mousemove" /\ panning.active /\ dragging.id = NoId) =>
       /\ vp'.scale = vp.scale
       /\ screenToWorld(vp', event'.x, event'.y) = grab]_vars

(***************************************************************************)
(* C28: ConversationGraph: the wheel, pan mouse moves and Reset View leave *)
(* scene.nodes and scene.edges unchanged; addNode, deleteNode, drag moves, *)
(* commitEdit and the updates of a stream leave vp unchanged; Reset View   *)
(* sets vp to (x: 0, y: 0, scale: 1) from any state.                       *)
(***************************************************************************)
C28_ViewAndSceneApart ==
  [][/\ event'.type \in {"wheel", "reset"} => nodes' = nodes /\ edges' = edges
     /\ (event'.type = "mousemove" /\ dragging.id = NoId) =>
          nodes' = nodes /\ edges' = edges
     /\ event'.type \in {"addnode", "delete", "blur", "fetch", "chunk", "done"} =>
          vp' = vp
     /\ (event'.type = "mousemove" /\ dragging.id /= NoId) => vp' = vp
     /\ event'.type = "reset" => vp' = [x |-> R(0), y |-> R(0), scale |-> R(1)]]_vars

\* the viewport was panned and a second pan began, the stream ended and added
\* the next user node, and Reset View was pressed
C28_Witness ==
  /\ event.type = "reset"
  /\ used = MaxFrameEvents
  /\ panning.active /\ panning.ox /= R(0)
  /\ DOMAIN nodes /= {1, 2}
  /\ vp = [x |-> R(0), y |-> R(0), scale |-> R(1)]

(***************************************************************************)
(* C29: ConversationGraph: while a user node is being edited, Enter        *)
(* without Shift makes the current edit value the text of the node and     *)
(* sets editing to null; Shift+Enter changes neither the text nor editing; *)
(* Escape sets editing to null and leaves the text of every node as it is. *)
(***************************************************************************)
C29_EnterCommitsEscapeCancels ==
  [][(Complete(nodes, editing) /\ nodes[editing].author = "user") =>
       /\ event'.type = "enter" =>
            /\ nodes' = [nodes EXCEPT ![editing].text = editingValue]
            /\ editing' = NoId
       /\ event'.type = "shiftenter" =>
            /\ DOMAIN nodes' = DOMAIN nodes
            /\ \A k \in DOMAIN nodes : nodes'[k].text = nodes[k].text
            /\ editing' = editing
       /\ event'.type = "escape" =>
            /\ DOMAIN nodes' = DOMAIN nodes
            /\ \A k \in DOMAIN nodes : nodes'[k].text = nodes[k].text
            /\ editing' = NoId]_vars

\* a text was typed into node 3 and Enter committed it
C29_Witness ==
  /\ event.type = "enter"
  /\ editing = NoId
  /\ Complete(nodes, 3) /\ nodes[3].text = <<"typed 3">>
  /\ editingValue = <<"typed 3">>

\* the text t was typed into a node other than k, or is the text of the root node
TextOfAnother(t, k) ==
  \/ \E j \in (1..MaxEditIds) \ {k} : t \in EditValuesFor(j)
  \/ k /= 1 /\ t = EditScene[1].text

(***************************************************************************)
(* C30: ConversationGraph: commitEdit writes into the node being edited,   *)
(* and into no other node, the value entered for that node: in every order *)
(* of double click, Enter, input and blur over different user nodes, no    *)
(* node holds a text, and no edit holds a value, that was typed into       *)
(* another node or is the text of another node.                            *)
(***************************************************************************)
C30_CommitKeepsValuesApart ==
  /\ [](/\ \A k \in DOMAIN nodes : ~TextOfAnother(nodes[k].text, k)
        /\ editing /= NoId => ~TextOfAnother(editingValue, editing))
  /\ [][event'.type \in {"dblclick", "enter", "shiftenter", "input", "blur"} =>
         \A k \in DOMAIN nodes' :
            IF k = editing
            THEN nodes'[k].text = editingValue
                 \/ (k \in DOMAIN nodes /\ nodes'[k] = nodes[k])
            ELSE k \in DOMAIN nodes /\ nodes'[k] = nodes[k]]_vars

\* a text was typed into node 3 and committed, and then a text was typed into
\* node 1 and committed
C30_Witness ==
  /\ event.type = "blur"
  /\ editing = NoId
  /\ Complete(nodes, 1) /\ nodes[1].text = <<"typed 1">>
  /\ Complete(nodes, 3) /\ nodes[3].text = <<"typed 3">>

(***************************************************************************)
(* C31: addBotResponse and handleSend: for a response body whose data      *)
(* lines all parse, every cut of the body into reads, also in the middle   *)
(* of a line, ends with the text that the body read in one piece gives,    *)
(* and with no error.                                                      *)
(***************************************************************************)
C31_SplitsGiveSameText ==
  /\ chat.loop.pc /= "failed"
  /\ chat.loop.pc = "ended" => loopText = WholeLoop(chat.loop.body).assistantText
  /\ \A r \in 1..Len(chat.view.sends) :
       /\ chat.view.sends[r].pc /= "failed"
       /\ chat.view.sends[r].pc = "ended" =>
            chat.view.sends[r].assistantText
              = WholeSend(chat.view.sends[r].body).assistantText

\* the 'user' and 'assistant' messages of a list, in their order
Kept(msgs) == SelectSeq(msgs, LAMBDA m : m.role \in {"user", "assistant"})

Errors(msgs) == Len(SelectSeq(msgs, LAMBDA m : m = errorMessage))

(***************************************************************************)
(* C32: chat view (part_002): when the fetch rejects, the response is not  *)
(* ok, or a data line fails to parse, no 'assistant_temp' message is left, *)
(* exactly one message {role: 'system', content: 'Error fetching response  *)
(* from the model.'} is appended, and the 'user' and 'assistant' messages  *)
(* that were in the list are kept in their order.                          *)
(***************************************************************************)
C32_FailureReplacesTemp ==
  [][\A r \in 1..Len(chat.view.sends) :
       (chat.view.sends[r].pc /= "failed" /\ chat'.view.sends[r].pc = "failed") =>
          LET old == chat.view.messages
              new == chat'.view.messages
          IN /\ \A i \in 1..Len(new) : new[i].role /= "assistant_temp"
             /\ new /= <<>> /\ new[Len(new)] = errorMessage
             /\ Errors(new) = Errors(old) + 1
             /\ Len(Kept(new)) >= Len(Kept(old))
             /\ SubSeq(Kept(new), 1, Len(Kept(old))) = Kept(old)]_vars

\* the first response was read to its end and the second, sent while the first
\* streamed, broke at a line that does not parse
C32_Witness ==
  /\ Len(chat.view.sends) = 2
  /\ chat.view.sends[1].pc = "ended" /\ chat.view.sends[1].stopped
  /\ chat.view.sends[2].cause = "parse"
  /\ chat.view.messages =
       << [role |-> "user", content |-> <<"hi">>],
          [role |-> "user", content |-> <<"hi">>],
          [role |-> "assistant", content |-> <<"a">>],
          errorMessage >>

\* the causes of the catch block that are network or parse failures
Failures == {"fetch", "notok", "read", "parse"}

TestErrors(msgs) == Len(SelectSeq(msgs, LAMBDA m : m = testErrorMessage))

Answers(msgs) ==
  Len(SelectSeq(msgs, LAMBDA m : m.role = "assistant" /\ m /= testErrorMessage))

(***************************************************************************)
(* C33: chat view of Test.tsx: the message list holds an error message     *)
(* 'Error fetching response from the model.' only for a request that met a *)
(* network or parse failure; a response read to its end with finish_reason *)
(* 'stop' has added exactly one 'assistant' message, with the accumulated  *)
(* text, and no error message.                                             *)
(***************************************************************************)
C33_ErrorOnlyOnFailure ==
  LET sends == chat.test.sends
      msgs == chat.test.messages
  IN /\ TestErrors(msgs)
          = Cardinality({r \in 1..Len(sends) : sends[r].cause \in Failures})
     /\ Answers(msgs) = Cardinality({r \in 1..Len(sends) : sends[r].stopped})
     /\ \A r \in 1..Len(sends) :
          (sends[r].stopped /\ sends[r].rest = <<>>) =>
             \E i \in 1..Len(msgs) :
                msgs[i] = [role |-> "assistant", content |-> sends[r].assistantText]
====
